---- MODULE Spec2Model ----
(***************************************************************************)
(* Model of the service-authorization subsystem of the gRPC server:         *)
(*   src/src/lib/middleware/serviceAuth.middleware.ts  (credential          *)
(*       verification, role / permission checks, handler composition)       *)
(*   src/src/lib/grpc.ts                               (GrpcServer)          *)
(*   src/src/lib/config.ts                             (loadServerConfig)    *)
(*   src/unnamed/part_010                              (auth repositories)   *)
(*                                                                           *)
(* Time is counted in whole days.  Strings that the code inspects character  *)
(* by character (credentials) are sequences of one-character strings.        *)
(***************************************************************************)
EXTENDS Integers, Sequences, FiniteSets, TLC

(***************************************************************************)
(* Bounds of the model                                                       *)
(***************************************************************************)
MaxTime == 1

(***************************************************************************)
(* Program constants                                                         *)
(***************************************************************************)
ApiKeyLength == 64
RandomByteCount == 32
DefaultExpirationDays == 30
NullDate == -1

Undefined == "<undefined>"

\* loadServerConfig(): the record the function returns.  It has no
\* serviceJwtSecret field.
LoadServerConfig ==
    [ nodeEnv              |-> "development",
      port                 |-> "0.0.0.0:50051",
      apiKeyExpirationDays |-> DefaultExpirationDays ]

config == LoadServerConfig

\* A property read on the config object: undefined when the object has no
\* such property.
ConfigString(field) ==
    IF field \in DOMAIN config THEN config[field] ELSE Undefined

\* const SERVICE_JWT_SECRET = config.serviceJwtSecret;
SERVICE_JWT_SECRET == ConfigString("serviceJwtSecret")

(***************************************************************************)
(* Characters and strings                                                    *)
(***************************************************************************)
HexDigits == <<"0","1","2","3","4","5","6","7","8","9","a","b","c","d","e","f">>

LowerHexChars == { HexDigits[i] : i \in 1..16 }
WhiteSpace == {" "}

\* Buffer.toString('hex'): two lower-case hex digits per byte.
ToHex(bytes) ==
    [ i \in 1..(2 * Len(bytes)) |->
        IF i % 2 = 1 THEN HexDigits[(bytes[(i + 1) \div 2] \div 16) + 1]
                     ELSE HexDigits[(bytes[i \div 2] % 16) + 1] ]

\* crypto.randomBytes(32): the outcomes the model draws from.
RandomBytesPool == { [ i \in 1..RandomByteCount |-> 171 ] }

\* generateApiKey(): crypto.randomBytes(32).toString('hex')
GenerateApiKey == { ToHex(b) : b \in RandomBytesPool }

\* uuidv4(): 36 characters, 8-4-4-4-12 hex digits separated by dashes.
UuidPool ==
    { [ i \in 1..36 |-> IF i \in {9, 14, 19, 24} THEN "-"
                        ELSE IF i = 15 THEN "4" ELSE "b" ] }

\* the pattern without the i flag
ApiKeyPattern_CaseSensitive(s) ==
    /\ Len(s) = ApiKeyLength
    /\ \A i \in 1..Len(s) : s[i] \in LowerHexChars

\* /^[a-f0-9]{64}$/i
ApiKeyPattern(s) ==
    /\ Len(s) = ApiKeyLength
    /\ \A i \in 1..Len(s) : s[i] \in LowerHexChars \cup {"A","B","C","D","E","F"}

Lower(c) ==
    CASE c = "B" -> "b" [] c = "E" -> "e" [] c = "A" -> "a" [] c = "R" -> "r"
      [] OTHER -> c

RECURSIVE DropWhiteSpace(_)
DropWhiteSpace(s) ==
    IF Len(s) > 0 /\ Head(s) \in WhiteSpace THEN DropWhiteSpace(Tail(s)) ELSE s

\* (meta[0] as string).replace(/^Bearer\s+/i, '')
StripBearer(s) ==
    IF /\ Len(s) >= 7
       /\ [ i \in 1..6 |-> Lower(s[i]) ] = <<"b","e","a","r","e","r">>
       /\ s[7] \in WhiteSpace
    THEN DropWhiteSpace(SubSeq(s, 7, Len(s)))
    ELSE s


(***************************************************************************)
(* The persisted entities (prisma migrations): services, roles,              *)
(* permissions are fixed rows; the junction tables, the endpoint policies    *)
(* and the API keys are state.                                               *)
(***************************************************************************)
ServiceIds == {"service-1", "service-2"}

\* services.name (unique) of each services.id
ServiceNameOf(id) ==
    IF id = "service-1" THEN "api-rest-service" ELSE "billing-service"

ServiceNames == { ServiceNameOf(id) : id \in ServiceIds }

\* a subject / owner name that is no row of services
GhostName == "ghost-service"

RoleOrder == <<"service-admin", "service-reader">>
Roles == { RoleOrder[i] : i \in 1..Len(RoleOrder) }

PermOrder == <<"user:get", "user:create">>
Perms == { PermOrder[i] : i \in 1..Len(PermOrder) }

VARIABLES
    now,              \* the clock, in days
    apiKeys,          \* table api_keys, in creation order (id = position)
    serviceRoles,     \* table service_roles: set of <<service id, role>>
    rolePermissions,  \* table role_permissions: set of <<role, permission>>
    serviceEndpoints, \* table service_endpoints: set of rows
    jwtLibMajor,      \* major version of the installed jsonwebtoken
    call,             \* the unary call in flight through a composed handler,
                      \* or the last completed one until another operation begins
    lastOp,           \* outcome of the management operation just completed,
                      \* until a call begins
    server            \* the GrpcServer object

vars == << now, apiKeys, serviceRoles, rolePermissions, serviceEndpoints,
           jwtLibMajor, call, lastOp, server >>

storeVars == << apiKeys, serviceRoles, rolePermissions, serviceEndpoints >>

(***************************************************************************)
(* Store accessors                                                           *)
(***************************************************************************)
\* prisma.service.findUnique({ where: { name } }): the id, or Undefined
ServiceFindUniqueByName(name) ==
    IF \E id \in ServiceIds : ServiceNameOf(id) = name
    THEN CHOOSE id \in ServiceIds : ServiceNameOf(id) = name
    ELSE Undefined

\* prisma.apiKey.findUnique({ where: { key } }): the position, or 0
ApiKeyFindUniqueByKey(table, key) ==
    IF \E i \in 1..Len(table) : table[i].key = key
    THEN CHOOSE i \in 1..Len(table) : table[i].key = key
    ELSE 0

\* the roles of a service, in table order
RolesOfService(sr, id) ==
    SelectSeq(RoleOrder, LAMBDA r : <<id, r>> \in sr)

\* the permission names a role grants, in table order
PermissionsOfRole(rp, r) ==
    SelectSeq(PermOrder, LAMBDA p : <<r, p>> \in rp)

RECURSIVE FlatMapPermissions(_, _)
FlatMapPermissions(rp, roles) ==
    IF roles = << >> THEN << >>
    ELSE PermissionsOfRole(rp, Head(roles)) \o FlatMapPermissions(rp, Tail(roles))

\* [...new Set(xs)]: first occurrences, in order
RECURSIVE Dedup(_)
Dedup(xs) ==
    IF xs = << >> THEN << >>
    ELSE LET front == Dedup(SubSeq(xs, 1, Len(xs) - 1))
             last  == xs[Len(xs)]
         IN IF \E i \in 1..Len(front) : front[i] = last
            THEN front ELSE Append(front, last)

Range(xs) == { xs[i] : i \in 1..Len(xs) }

\* the junction rows written by the seed script
SeedServiceRoles ==
    { <<"service-1", "service-admin">>, <<"service-1", "service-reader">>,
      <<"service-2", "service-reader">> }

SeedRolePermissions ==
    { <<"service-admin", "user:get">>, <<"service-admin", "user:create">>,
      <<"service-reader", "user:get">> }

(***************************************************************************)
(* Credentials.  A credential string is its characters plus, when it is a    *)
(* compact signed token header.payload.signature, the claims it encodes and  *)
(* the key it was signed with.  The characters of a signed token are         *)
(* abbreviated to h.p.s: the code only asks whether the whole string is 64   *)
(* hex digits, which a string holding a dot is not.                          *)
(***************************************************************************)
DocumentedServiceSecret == "service-super-secret"
ReservedAudience == "grpc_auth"


RawCredential(chars) ==
    [ chars |-> chars, claims |-> [ sub |-> "", aud |-> "", sig |-> "malformed" ] ]

SignedToken(sub, aud, sig) ==
    [ chars  |-> <<"h", ".", "p", ".", "s">>,
      claims |-> [ sub |-> sub, aud |-> aud, sig |-> sig ] ]

NoCredential == RawCredential(<< >>)

UpperA64 == [ i \in 1..ApiKeyLength |-> "A" ]

\* besides the candidates: upper-case hex, 63 hex characters, 64 characters
\* one of which is no hex digit
RawStrings ==
    GenerateApiKey \cup UuidPool \cup
    { UpperA64,
      [ i \in 1..(ApiKeyLength - 1) |-> "a" ],
      [ i \in 1..ApiKeyLength |-> "g" ] }

Tokens ==
    { SignedToken("api-rest-service", ReservedAudience, DocumentedServiceSecret),
      SignedToken("billing-service",  ReservedAudience, DocumentedServiceSecret),
      SignedToken(GhostName,          ReservedAudience, DocumentedServiceSecret),
      SignedToken("api-rest-service", "user_auth",      DocumentedServiceSecret),
      SignedToken("api-rest-service", Undefined,        DocumentedServiceSecret),
      SignedToken("api-rest-service", ReservedAudience, "none"),
      SignedToken(GhostName,          ReservedAudience, "none"),
      SignedToken("api-rest-service", "user_auth",      "none") }

Credentials == { RawCredential(s) : s \in RawStrings } \cup Tokens

\* the value of the service-authorization metadata entry carrying c
WithBearer(c) == [ c EXCEPT !.chars = <<"B","e","a","r","e","r"," ">> \o c.chars ]

(***************************************************************************)
(* Errors delivered through the callback                                     *)
(***************************************************************************)
NoError == [ code |-> "OK", message |-> "", detail |-> "" ]
GrpcError(code, message) == [ code |-> code, message |-> message, detail |-> "" ]
\* an error that is not a { code, message } literal of the middleware
StoreError == [ code |-> "NONE", message |-> "store error", detail |-> "" ]
HandlerError == [ code |-> "NONE", message |-> "handler error", detail |-> "" ]

(***************************************************************************)
(* verifyApiKey, on the row read by findUnique                               *)
(***************************************************************************)
\* the expiry comparison left out
ExpiredAt_Never(row, t) == FALSE

ExpiredAt(row, t) == row.expiresAt < t

\* the isRevoked test left out
VerifyApiKey_NoRevokedCheck(table, key, t) ==
    LET i == ApiKeyFindUniqueByKey(table, key) IN
    IF i = 0
    THEN [ ok |-> FALSE, keyId |-> 0, serviceName |-> "",
           err |-> GrpcError("UNAUTHENTICATED", "Invalid API key") ]
    ELSE IF ExpiredAt(table[i], t)
    THEN [ ok |-> FALSE, keyId |-> i, serviceName |-> "",
           err |-> GrpcError("UNAUTHENTICATED", "API key has expired") ]
    ELSE [ ok |-> TRUE, keyId |-> i,
           serviceName |-> ServiceNameOf(table[i].serviceId),
           err |-> NoError ]

\* expiry tested before revocation
VerifyApiKey_ExpiryFirst(table, key, t) ==
    LET i == ApiKeyFindUniqueByKey(table, key) IN
    IF i = 0
    THEN [ ok |-> FALSE, keyId |-> 0, serviceName |-> "",
           err |-> GrpcError("UNAUTHENTICATED", "Invalid API key") ]
    ELSE IF ExpiredAt(table[i], t)
    THEN [ ok |-> FALSE, keyId |-> i, serviceName |-> "",
           err |-> GrpcError("UNAUTHENTICATED", "API key has expired") ]
    ELSE IF table[i].isRevoked
    THEN [ ok |-> FALSE, keyId |-> i, serviceName |-> "",
           err |-> GrpcError("UNAUTHENTICATED", "API key has been revoked") ]
    ELSE [ ok |-> TRUE, keyId |-> i,
           serviceName |-> ServiceNameOf(table[i].serviceId),
           err |-> NoError ]

VerifyApiKey(table, key, t) ==
    LET i == ApiKeyFindUniqueByKey(table, key) IN
    IF i = 0
    THEN [ ok |-> FALSE, keyId |-> 0, serviceName |-> "",
           err |-> GrpcError("UNAUTHENTICATED", "Invalid API key") ]
    ELSE IF table[i].isRevoked
    THEN [ ok |-> FALSE, keyId |-> i, serviceName |-> "",
           err |-> GrpcError("UNAUTHENTICATED", "API key has been revoked") ]
    ELSE IF ExpiredAt(table[i], t)
    THEN [ ok |-> FALSE, keyId |-> i, serviceName |-> "",
           err |-> GrpcError("UNAUTHENTICATED", "API key has expired") ]
    ELSE [ ok |-> TRUE, keyId |-> i,
           serviceName |-> ServiceNameOf(table[i].serviceId),
           err |-> NoError ]

(***************************************************************************)
(* jwt.verify(token, secret) of jsonwebtoken.  A signed token needs a        *)
(* secret and a signature made with it.  An unsigned token is refused when   *)
(* a secret is given; without a secret, major version 8 accepts it and       *)
(* major version 9 refuses it.                                               *)
(***************************************************************************)
JwtVerify(token, secret, libMajor) ==
    CASE token.claims.sig = "malformed" -> FALSE
      [] token.claims.sig = "none"      -> secret = Undefined /\ libMajor = 8
      [] OTHER -> secret # Undefined /\ token.claims.sig = secret

\* the audience test left out
VerifyJwt_NoAudienceCheck(token, libMajor) ==
    IF ~JwtVerify(token, SERVICE_JWT_SECRET, libMajor)
    THEN [ ok |-> FALSE, serviceName |-> "", cause |-> "signature",
           err |-> GrpcError("UNAUTHENTICATED", "Invalid service token") ]
    ELSE [ ok |-> TRUE, serviceName |-> token.claims.sub, cause |-> "",
           err |-> NoError ]

\* the audience failure is thrown past the catch, with PERMISSION_DENIED
VerifyJwt_AudienceDenied(token, libMajor) ==
    IF ~JwtVerify(token, SERVICE_JWT_SECRET, libMajor)
    THEN [ ok |-> FALSE, serviceName |-> "", cause |-> "signature",
           err |-> GrpcError("UNAUTHENTICATED", "Invalid service token") ]
    ELSE IF token.claims.aud # ReservedAudience
    THEN [ ok |-> FALSE, serviceName |-> "", cause |-> "audience",
           err |-> GrpcError("PERMISSION_DENIED", "Invalid audience") ]
    ELSE [ ok |-> TRUE, serviceName |-> token.claims.sub, cause |-> "",
           err |-> NoError ]

\* the JWT branch of verifyServiceToken
VerifyJwt(token, libMajor) ==
    IF ~JwtVerify(token, SERVICE_JWT_SECRET, libMajor)
    THEN [ ok |-> FALSE, serviceName |-> "", cause |-> "signature",
           err |-> GrpcError("UNAUTHENTICATED", "Invalid service token") ]
    ELSE IF token.claims.aud # ReservedAudience
    THEN [ ok |-> FALSE, serviceName |-> "", cause |-> "audience",
           err |-> GrpcError("UNAUTHENTICATED", "Invalid service token") ]
    ELSE [ ok |-> TRUE, serviceName |-> token.claims.sub, cause |-> "",
           err |-> NoError ]

(***************************************************************************)
(* checkServicePermission / checkServiceRole, on the current graph           *)
(***************************************************************************)
\* any role of the service counts, whatever it grants
CheckServicePermission_AnyRole(sr, rp, serviceName, permissionName) ==
    LET id == ServiceFindUniqueByName(serviceName) IN
    IF id = Undefined THEN FALSE
    ELSE RolesOfService(sr, id) # << >>

\* only the first role of the service is looked at
CheckServicePermission_FirstRoleOnly(sr, rp, serviceName, permissionName) ==
    LET id == ServiceFindUniqueByName(serviceName) IN
    IF id = Undefined THEN FALSE
    ELSE LET roles == RolesOfService(sr, id) IN
         /\ roles # << >>
         /\ permissionName \in Range(PermissionsOfRole(rp, roles[1]))

\* the graph is the one read when the process started
CheckServicePermission_SeedGraph(sr, rp, serviceName, permissionName) ==
    LET id == ServiceFindUniqueByName(serviceName) IN
    IF id = Undefined THEN FALSE
    ELSE \E r \in Range(RolesOfService(SeedServiceRoles, id)) :
            permissionName \in Range(PermissionsOfRole(SeedRolePermissions, r))

CheckServicePermission(sr, rp, serviceName, permissionName) ==
    LET id == ServiceFindUniqueByName(serviceName) IN
    IF id = Undefined THEN FALSE
    ELSE \E r \in Range(RolesOfService(sr, id)) :
            permissionName \in Range(PermissionsOfRole(rp, r))

NoServiceInfo ==
    [ serviceId |-> "", serviceName |-> "", role |-> "", permissions |-> << >> ]

\* the "Service not found" test left out: an unknown name has no roles
CheckServiceRole_NoNotFound(sr, rp, serviceName, requiredRole) ==
    LET id    == ServiceFindUniqueByName(serviceName)
        roles == IF id = Undefined THEN << >> ELSE RolesOfService(sr, id)
    IN
    IF requiredRole # Undefined /\ requiredRole \notin Range(roles)
    THEN [ ok |-> FALSE, info |-> NoServiceInfo,
           err |-> GrpcError("PERMISSION_DENIED", "Insufficient service role") ]
    ELSE [ ok |-> TRUE,
           info |-> [ serviceId   |-> id,
                      serviceName |-> serviceName,
                      role        |-> IF requiredRole # Undefined THEN requiredRole
                                      ELSE IF roles # << >> THEN roles[1] ELSE "",
                      permissions |-> Dedup(FlatMapPermissions(rp, roles)) ],
           err |-> NoError ]

\* any role of the service satisfies the requirement
CheckServiceRole_AnyRoleSuffices(sr, rp, serviceName, requiredRole) ==
    LET id    == ServiceFindUniqueByName(serviceName)
        roles == RolesOfService(sr, id)
    IN
    IF id = Undefined
    THEN [ ok |-> FALSE, info |-> NoServiceInfo,
           err |-> GrpcError("PERMISSION_DENIED", "Service not found") ]
    ELSE IF requiredRole # Undefined /\ roles = << >>
    THEN [ ok |-> FALSE, info |-> NoServiceInfo,
           err |-> GrpcError("PERMISSION_DENIED", "Insufficient service role") ]
    ELSE [ ok |-> TRUE,
           info |-> [ serviceId   |-> id,
                      serviceName |-> serviceName,
                      role        |-> IF requiredRole # Undefined THEN requiredRole
                                      ELSE IF roles # << >> THEN roles[1] ELSE "",
                      permissions |-> Dedup(FlatMapPermissions(rp, roles)) ],
           err |-> NoError ]

CheckServiceRole(sr, rp, serviceName, requiredRole) ==
    LET id    == ServiceFindUniqueByName(serviceName)
        roles == RolesOfService(sr, id)
    IN
    IF id = Undefined
    THEN [ ok |-> FALSE, info |-> NoServiceInfo,
           err |-> GrpcError("PERMISSION_DENIED", "Service not found") ]
    ELSE IF requiredRole # Undefined /\ requiredRole \notin Range(roles)
    THEN [ ok |-> FALSE, info |-> NoServiceInfo,
           err |-> GrpcError("PERMISSION_DENIED", "Insufficient service role") ]
    ELSE [ ok |-> TRUE,
           info |-> [ serviceId   |-> id,
                      serviceName |-> serviceName,
                      role        |-> IF requiredRole # Undefined THEN requiredRole
                                      ELSE IF roles # << >> THEN roles[1] ELSE "",
                      permissions |-> Dedup(FlatMapPermissions(rp, roles)) ],
           err |-> NoError ]

(***************************************************************************)
(* Key management: createApiKey / revokeApiKey of the middleware and         *)
(* ApiKeyRepository.create / revoke / resetExpiry                            *)
(***************************************************************************)
\* the optional expirationDays argument
DaysArgs ==
    { [ given |-> FALSE, n |-> 0 ] } \cup { [ given |-> TRUE, n |-> n ] : n \in {-1, 0, 1} }

\* the day count is subtracted from the date instead of added
EffectiveDays_Subtracted(days) ==
    IF days.given /\ days.n # 0 THEN 0 - days.n ELSE 0 - config.apiKeyExpirationDays

\* expirationDays || config.apiKeyExpirationDays
EffectiveDays(days) ==
    IF days.given /\ days.n # 0 THEN days.n ELSE config.apiKeyExpirationDays

\* the expiresAt values a client passes to the ApiKey service
ExpiryInputs == { 0, MaxTime + 1 }

NewApiKeyRow(key, serviceId, expiresAt, t) ==
    [ key        |-> key,
      serviceId  |-> serviceId,
      expiresAt  |-> expiresAt,
      createdAt  |-> t,
      lastUsedAt |-> NullDate,
      isRevoked  |-> FALSE ]

\* the wrapper a call goes through, and the record of a call
WrapPermission(p) == [ kind |-> "permission", arg |-> p ]
WrapRole(r) == [ kind |-> "role", arg |-> r ]
Unwrapped == [ kind |-> "original", arg |-> "" ]

ComposedWrappers ==
    { WrapPermission(p) : p \in Perms } \cup
    { WrapRole(r) : r \in Roles \cup { Undefined } }

\* what the business handler does once invoked
HandlerBehaviours == { "respond", "throw", "respondThenThrow" }

IdleCall ==
    [ pc          |-> "idle",
      target      |-> << >>,       \* <<service, endpoint>> of a registered handler
      wrap        |-> Unwrapped,
      hasMeta     |-> FALSE,
      token       |-> NoCredential,
      lookedUp    |-> FALSE,       \* the api_keys table was queried
      jwtVerified |-> FALSE,       \* jwt.verify was called
      cause       |-> "",
      keyId       |-> 0,
      at          |-> 0,
      verified    |-> FALSE,       \* the credential passed every check
      touched     |-> FALSE,       \* the lastUsedAt update was written
      authorized  |-> FALSE,       \* the role / permission check passed
      serviceName |-> "",
      attached    |-> NoServiceInfo,
      invoked     |-> FALSE,       \* the business handler was called
      responded   |-> FALSE,       \* the handler called callback(null, response)
      callbacks   |-> 0,
      err         |-> NoError ]

\* the record of a completed call is kept until the next operation begins
Forget(c) == IF c.pc = "done" THEN IdleCall ELSE c

\* the outcome of a management operation: what it returned or threw (error is
\* the fixed text of the message, detail the value interpolated into it, key
\* the key field of the row it returned, keys those of the rows of a list),
\* and whether the row it updated was revoked before the update
NoOp ==
    [ op |-> "none", ok |-> TRUE, error |-> "", detail |-> "", key |-> << >>,
      keys |-> << >>, id |-> 0, wasRevoked |-> FALSE ]
OpOk(op, key, id) ==
    [ op |-> op, ok |-> TRUE, error |-> "", detail |-> "", key |-> key,
      keys |-> << >>, id |-> id, wasRevoked |-> FALSE ]
OpThrows(op, error) ==
    [ op |-> op, ok |-> FALSE, error |-> error, detail |-> "", key |-> << >>,
      keys |-> << >>, id |-> 0, wasRevoked |-> FALSE ]

KeyLookupInputs == GenerateApiKey \cup UuidPool \cup { UpperA64 }

\* the service lookup result is not tested: the row is written for whatever
\* id the lookup gave
CreateApiKey_NoServiceCheck(serviceName, days, key) ==
    LET serviceId == ServiceFindUniqueByName(serviceName) IN
    /\ IF ApiKeyFindUniqueByKey(apiKeys, key) # 0
       THEN /\ lastOp' = OpThrows("createApiKey", "unique constraint")
            /\ apiKeys' = apiKeys
       ELSE /\ apiKeys' = Append(apiKeys,
                 NewApiKeyRow(key, serviceId, now + EffectiveDays(days), now))
            /\ lastOp' = OpOk("createApiKey", key, Len(apiKeys) + 1)
    /\ call' = Forget(call)
    /\ UNCHANGED << now, serviceRoles, rolePermissions, serviceEndpoints,
                    jwtLibMajor, server >>

\* createApiKey(serviceName, expirationDays?)
CreateApiKey(serviceName, days, key) ==
    LET serviceId == ServiceFindUniqueByName(serviceName) IN
    /\ IF serviceId = Undefined
       THEN /\ lastOp' = [ OpThrows("createApiKey", "Service not found: ")
                              EXCEPT !.detail = serviceName ]
            /\ apiKeys' = apiKeys
       ELSE IF ApiKeyFindUniqueByKey(apiKeys, key) # 0
       THEN /\ lastOp' = OpThrows("createApiKey", "unique constraint")
            /\ apiKeys' = apiKeys
       ELSE /\ apiKeys' = Append(apiKeys,
                 NewApiKeyRow(key, serviceId, now + EffectiveDays(days), now))
            /\ lastOp' = OpOk("createApiKey", key, Len(apiKeys) + 1)
    /\ call' = Forget(call)
    /\ UNCHANGED << now, serviceRoles, rolePermissions, serviceEndpoints,
                    jwtLibMajor, server >>

\* ApiKeyRepository.create(input)
RepositoryCreate(serviceId, expiresAt, key) ==
    /\ IF ApiKeyFindUniqueByKey(apiKeys, key) # 0
       THEN /\ lastOp' = OpThrows("ApiKeyRepository.create", "unique constraint")
            /\ apiKeys' = apiKeys
       ELSE /\ apiKeys' = Append(apiKeys,
                 NewApiKeyRow(key, serviceId, expiresAt, now))
            /\ lastOp' = OpOk("ApiKeyRepository.create", key, Len(apiKeys) + 1)
    /\ call' = Forget(call)
    /\ UNCHANGED << now, serviceRoles, rolePermissions, serviceEndpoints,
                    jwtLibMajor, server >>

\* a key that is already revoked is refused
RevokeApiKey_ThrowsWhenRevoked(key) ==
    LET i == ApiKeyFindUniqueByKey(apiKeys, key) IN
    /\ IF i = 0
       THEN /\ lastOp' = OpThrows("revokeApiKey", "record not found")
            /\ apiKeys' = apiKeys
       ELSE IF apiKeys[i].isRevoked
       THEN /\ lastOp' = OpThrows("revokeApiKey", "already revoked")
            /\ apiKeys' = apiKeys
       ELSE /\ apiKeys' = [ apiKeys EXCEPT ![i].isRevoked = TRUE ]
            /\ lastOp' = OpOk("revokeApiKey", << >>, i)
    /\ call' = Forget(call)
    /\ UNCHANGED << now, serviceRoles, rolePermissions, serviceEndpoints,
                    jwtLibMajor, server >>

\* updateMany instead of update: no row matched is not an error
RevokeApiKey_SilentOnUnknown(key) ==
    LET i == ApiKeyFindUniqueByKey(apiKeys, key) IN
    /\ IF i = 0
       THEN /\ lastOp' = OpOk("revokeApiKey", << >>, 0)
            /\ apiKeys' = apiKeys
       ELSE /\ apiKeys' = [ apiKeys EXCEPT ![i].isRevoked = TRUE ]
            /\ lastOp' = [ OpOk("revokeApiKey", << >>, i)
                              EXCEPT !.wasRevoked = apiKeys[i].isRevoked ]
    /\ call' = Forget(call)
    /\ UNCHANGED << now, serviceRoles, rolePermissions, serviceEndpoints,
                    jwtLibMajor, server >>

\* revokeApiKey(key): prisma update where { key }, which throws on no row
RevokeApiKey(key) ==
    LET i == ApiKeyFindUniqueByKey(apiKeys, key) IN
    /\ IF i = 0
       THEN /\ lastOp' = OpThrows("revokeApiKey", "record not found")
            /\ apiKeys' = apiKeys
       ELSE /\ apiKeys' = [ apiKeys EXCEPT ![i].isRevoked = TRUE ]
            /\ lastOp' = [ OpOk("revokeApiKey", << >>, i)
                              EXCEPT !.wasRevoked = apiKeys[i].isRevoked ]
    /\ call' = Forget(call)
    /\ UNCHANGED << now, serviceRoles, rolePermissions, serviceEndpoints,
                    jwtLibMajor, server >>

\* ApiKeyRepository.revoke(id): prisma update where { id }
RepositoryRevoke(id) ==
    /\ IF id \notin 1..Len(apiKeys)
       THEN /\ lastOp' = OpThrows("ApiKeyRepository.revoke", "record not found")
            /\ apiKeys' = apiKeys
       ELSE /\ apiKeys' = [ apiKeys EXCEPT ![id].isRevoked = TRUE ]
            /\ lastOp' = [ OpOk("ApiKeyRepository.revoke", << >>, id)
                              EXCEPT !.wasRevoked = apiKeys[id].isRevoked ]
    /\ call' = Forget(call)
    /\ UNCHANGED << now, serviceRoles, rolePermissions, serviceEndpoints,
                    jwtLibMajor, server >>

\* ApiKeyRepository.resetExpiry(input): null when the id is unknown
RepositoryResetExpiry(id, expiresAt) ==
    /\ IF id \notin 1..Len(apiKeys)
       THEN /\ lastOp' = OpOk("ApiKeyRepository.resetExpiry", << >>, 0)
            /\ apiKeys' = apiKeys
       ELSE /\ apiKeys' = [ apiKeys EXCEPT ![id].expiresAt = expiresAt ]
            /\ lastOp' = OpOk("ApiKeyRepository.resetExpiry", apiKeys[id].key, id)
    /\ call' = Forget(call)
    /\ UNCHANGED << now, serviceRoles, rolePermissions, serviceEndpoints,
                    jwtLibMajor, server >>

\* the key field of each row of a list of rows
RECURSIVE KeysOf(_)
KeysOf(rows) ==
    IF rows = << >> THEN << >> ELSE << Head(rows).key >> \o KeysOf(Tail(rows))

\* ApiKeyService.getApiKey(id): ApiKeyRepository.findById, the whole row or
\* null
GetApiKey(id) ==
    /\ lastOp' = IF id \in 1..Len(apiKeys)
                 THEN OpOk("ApiKeyService.getApiKey", apiKeys[id].key, id)
                 ELSE OpOk("ApiKeyService.getApiKey", << >>, 0)
    /\ call' = Forget(call)
    /\ UNCHANGED << now, apiKeys, serviceRoles, rolePermissions, serviceEndpoints,
                    jwtLibMajor, server >>

\* ApiKeyService.listApiKeys(serviceId?): ApiKeyRepository.findByServiceId,
\* the whole rows; no rows when the serviceId is omitted
ListApiKeys(serviceId) ==
    /\ lastOp' = [ OpOk("ApiKeyService.listApiKeys", << >>, 0) EXCEPT !.keys =
                     IF serviceId = Undefined THEN << >>
                     ELSE KeysOf(SelectSeq(apiKeys,
                                           LAMBDA r : r.serviceId = serviceId)) ]
    /\ call' = Forget(call)
    /\ UNCHANGED << now, apiKeys, serviceRoles, rolePermissions, serviceEndpoints,
                    jwtLibMajor, server >>

\* a day passes
Tick ==
    /\ now < MaxTime
    /\ now' = now + 1
    /\ call' = Forget(call)
    /\ UNCHANGED << apiKeys, serviceRoles, rolePermissions, serviceEndpoints,
                    jwtLibMajor, lastOp, server >>

(***************************************************************************)
(* Composed handlers: requireServiceAuth(handler, requiredRole) and          *)
(* requireServiceAuthWithPermission(handler, permissionName).  A call runs   *)
(* from one store operation to the next; every await of a store operation    *)
(* is a point where other operations interleave.                             *)
(***************************************************************************)
\* catch (err) { callback(err, null) }
Reject(c, err) ==
    [ c EXCEPT !.pc = "done", !.err = err, !.callbacks = c.callbacks + 1 ]

\* the handler is called without the assignment to call.service
InvokeHandler_NotAttached(c, info, behaviour) ==
    LET c1 == [ c EXCEPT !.invoked = TRUE, !.authorized = TRUE ] IN
    CASE behaviour = "respond" ->
           [ c1 EXCEPT !.pc = "done", !.responded = TRUE, !.callbacks = c.callbacks + 1 ]
      [] behaviour = "throw" ->
           Reject(c1, HandlerError)
      [] OTHER ->
           Reject([ c1 EXCEPT !.responded = TRUE, !.callbacks = c.callbacks + 1 ],
                  HandlerError)

\* (call as any).service = serviceInfo; await handler(call, callback)
InvokeHandler(c, info, behaviour) ==
    LET c1 == [ c EXCEPT !.attached = info, !.invoked = TRUE, !.authorized = TRUE ] IN
    CASE behaviour = "respond" ->
           [ c1 EXCEPT !.pc = "done", !.responded = TRUE, !.callbacks = c.callbacks + 1 ]
      [] behaviour = "throw" ->
           Reject(c1, HandlerError)
      [] OTHER ->
           Reject([ c1 EXCEPT !.responded = TRUE, !.callbacks = c.callbacks + 1 ],
                  HandlerError)

\* how often the callback that grpc passed for the call is invoked, given how
\* often the composed handler invoked the callback it was passed: addService
\* of grpc.ts registers the composed handler itself; wrapWithLogging passes it
\* the settle function of a Promise, which acts on its first invocation only,
\* and then invokes the callback of grpc once
GrpcCallbackCount(c, logging) ==
    IF logging THEN ( IF c.callbacks > 0 THEN 1 ELSE 0 ) ELSE c.callbacks

\* the step after verifyServiceToken has returned
NextCheck(wrap) == IF wrap.kind = "permission" THEN "permission" ELSE "role"

\* a failed API key verification is not thrown
VerifyServiceToken_KeyErrorSwallowed(c, table, t, libMajor) ==
    IF ApiKeyPattern(c.token.chars)
    THEN LET r == VerifyApiKey(table, c.token.chars, t) IN
         IF r.ok
         THEN [ c EXCEPT !.lookedUp = TRUE, !.keyId = r.keyId, !.at = t,
                         !.verified = TRUE,
                         !.serviceName = r.serviceName, !.pc = "touch" ]
         ELSE [ c EXCEPT !.lookedUp = TRUE, !.keyId = r.keyId, !.at = t,
                         !.serviceName = "api-rest-service",
                         !.pc = NextCheck(c.wrap) ]
    ELSE LET r == VerifyJwt(c.token, libMajor) IN
         IF r.ok
         THEN [ c EXCEPT !.jwtVerified = TRUE, !.verified = TRUE,
                         !.serviceName = r.serviceName,
                         !.pc = NextCheck(c.wrap) ]
         ELSE Reject([ c EXCEPT !.jwtVerified = TRUE, !.cause = r.cause ], r.err)

\* metadata lookup, Bearer stripping and verifyServiceToken up to its first
\* store write
VerifyServiceToken(c, table, t, libMajor) ==
    IF ApiKeyPattern(c.token.chars)
    THEN LET r == VerifyApiKey(table, c.token.chars, t) IN
         IF r.ok
         THEN [ c EXCEPT !.lookedUp = TRUE, !.keyId = r.keyId, !.at = t,
                         !.verified = TRUE,
                         !.serviceName = r.serviceName, !.pc = "touch" ]
         ELSE Reject([ c EXCEPT !.lookedUp = TRUE, !.keyId = r.keyId, !.at = t ],
                     r.err)
    ELSE LET r == VerifyJwt(c.token, libMajor) IN
         IF r.ok
         THEN [ c EXCEPT !.jwtVerified = TRUE, !.verified = TRUE,
                         !.serviceName = r.serviceName,
                         !.pc = NextCheck(c.wrap) ]
         ELSE Reject([ c EXCEPT !.jwtVerified = TRUE, !.cause = r.cause ], r.err)

CanBegin == call.pc \in { "idle", "done" }

\* a call arrives with no service-authorization metadata entry
CallWithoutMetadata(wrap) ==
    /\ CanBegin
    /\ call' = Reject([ IdleCall EXCEPT !.wrap = wrap ],
                      GrpcError("UNAUTHENTICATED", "Missing service token"))
    /\ lastOp' = NoOp
    /\ UNCHANGED << now, apiKeys, serviceRoles, rolePermissions,
                    serviceEndpoints, jwtLibMajor, server >>

\* a call arrives carrying a credential
CallWithCredential(wrap, meta) ==
    /\ CanBegin
    /\ call' = VerifyServiceToken(
                 [ IdleCall EXCEPT !.wrap = wrap, !.hasMeta = TRUE,
                     !.token = [ meta EXCEPT !.chars = StripBearer(meta.chars) ] ],
                 apiKeys, now, jwtLibMajor)
    /\ lastOp' = NoOp
    /\ UNCHANGED << now, apiKeys, serviceRoles, rolePermissions,
                    serviceEndpoints, jwtLibMajor, server >>

\* the update also moves the expiry of the key (a sliding expiration)
TouchLastUsed_SlidingExpiry ==
    /\ call.pc = "touch"
    /\ apiKeys' = [ apiKeys EXCEPT ![call.keyId].lastUsedAt = call.at,
                                   ![call.keyId].expiresAt =
                                       call.at + DefaultExpirationDays ]
    /\ call' = [ call EXCEPT !.touched = TRUE, !.pc = NextCheck(call.wrap) ]
    /\ UNCHANGED << now, serviceRoles, rolePermissions, serviceEndpoints,
                    jwtLibMajor, lastOp, server >>

\* verifyApiKey returns without the update having been written
TouchLastUsed_NotWritten ==
    /\ call.pc = "touch"
    /\ call' = [ call EXCEPT !.touched = TRUE, !.pc = NextCheck(call.wrap) ]
    /\ UNCHANGED << now, apiKeys, serviceRoles, rolePermissions, serviceEndpoints,
                    jwtLibMajor, lastOp, server >>

\* prisma.apiKey.update({ where: { key }, data: { lastUsedAt: new Date() } })
TouchLastUsed ==
    /\ call.pc = "touch"
    /\ apiKeys' = [ apiKeys EXCEPT ![call.keyId].lastUsedAt = call.at ]
    /\ call' = [ call EXCEPT !.touched = TRUE, !.pc = NextCheck(call.wrap) ]
    /\ UNCHANGED << now, serviceRoles, rolePermissions, serviceEndpoints,
                    jwtLibMajor, lastOp, server >>

\* requireServiceAuthWithPermission: checkServicePermission
PermissionCheck ==
    /\ call.pc = "permission"
    /\ call' = IF CheckServicePermission(serviceRoles, rolePermissions,
                                         call.serviceName, call.wrap.arg)
               THEN [ call EXCEPT !.authorized = TRUE, !.pc = "info" ]
               ELSE Reject(call,
                      [ code |-> "PERMISSION_DENIED",
                        message |-> "Service does not have permission: ",
                        detail |-> call.wrap.arg ])
    /\ UNCHANGED << now, apiKeys, serviceRoles, rolePermissions,
                    serviceEndpoints, jwtLibMajor, lastOp, server >>

\* requireServiceAuthWithPermission: checkServiceRole(serviceName), attach,
\* handler
ServiceInfoAndHandler(behaviour) ==
    /\ call.pc = "info"
    /\ LET r == CheckServiceRole(serviceRoles, rolePermissions,
                                 call.serviceName, Undefined) IN
       call' = IF r.ok THEN InvokeHandler(call, r.info, behaviour)
               ELSE Reject(call, r.err)
    /\ UNCHANGED << now, apiKeys, serviceRoles, rolePermissions,
                    serviceEndpoints, jwtLibMajor, lastOp, server >>

\* requireServiceAuth: checkServiceRole(serviceName, requiredRole), attach,
\* handler
RoleCheckAndHandler(behaviour) ==
    /\ call.pc = "role"
    /\ LET r == CheckServiceRole(serviceRoles, rolePermissions,
                                 call.serviceName, call.wrap.arg) IN
       call' = IF r.ok THEN InvokeHandler(call, r.info, behaviour)
               ELSE Reject(call, r.err)
    /\ UNCHANGED << now, apiKeys, serviceRoles, rolePermissions,
                    serviceEndpoints, jwtLibMajor, lastOp, server >>

\* a rejected store operation is answered as if the service were unknown
StoreFailure_AsDenied ==
    /\ call.pc \in { "touch", "permission", "info", "role" }
    /\ call' = Reject([ call EXCEPT !.cause = "store" ],
                      GrpcError("PERMISSION_DENIED", "Service not found"))
    /\ UNCHANGED << now, apiKeys, serviceRoles, rolePermissions,
                    serviceEndpoints, jwtLibMajor, lastOp, server >>

\* a rejected operation is issued again: the call goes back to the update
StoreFailure_Retried ==
    /\ call.pc \in { "touch", "permission", "info", "role" }
    /\ call' = [ call EXCEPT !.pc = "touch" ]
    /\ UNCHANGED << now, apiKeys, serviceRoles, rolePermissions,
                    serviceEndpoints, jwtLibMajor, lastOp, server >>

\* the store operation the call is waiting for rejects: the wrapper's catch
\* hands the store's error to the callback
StoreFailure ==
    /\ call.pc \in { "touch", "permission", "info", "role" }
    /\ call' = Reject([ call EXCEPT !.cause = "store" ], StoreError)
    /\ UNCHANGED << now, apiKeys, serviceRoles, rolePermissions,
                    serviceEndpoints, jwtLibMajor, lastOp, server >>

\* a call arrives carrying a string of the API key form and
\* prisma.apiKey.findUnique rejects
LookupFailure(wrap, meta) ==
    /\ CanBegin
    /\ ApiKeyPattern(StripBearer(meta.chars))
    /\ call' = Reject([ IdleCall EXCEPT !.wrap = wrap, !.hasMeta = TRUE,
                          !.token = [ meta EXCEPT !.chars = StripBearer(meta.chars) ],
                          !.at = now, !.cause = "store" ],
                      StoreError)
    /\ lastOp' = NoOp
    /\ UNCHANGED << now, apiKeys, serviceRoles, rolePermissions,
                    serviceEndpoints, jwtLibMajor, server >>

(***************************************************************************)
(* Initial state: the seeded store, no keys, no call, a fresh GrpcServer     *)
(***************************************************************************)
NewGrpcServer ==
    [ phase    |-> "created",
      services |-> << >>,     \* this.services
      handlers |-> << >>,     \* the handler maps given to grpc.Server.addService
      pending  |-> << >> ]    \* the addService call awaiting the middleware

Init ==
    /\ now = 0
    /\ apiKeys = << >>
    /\ serviceRoles = SeedServiceRoles
    /\ rolePermissions = SeedRolePermissions
    /\ serviceEndpoints = { }
    /\ jwtLibMajor = 9
    /\ call = IdleCall
    /\ lastOp = NoOp
    /\ server = NewGrpcServer

\* the metadata values presented to the composed handlers in Spec: every raw
\* string as "Bearer <credential>", an issued-key candidate also bare, and one
\* signed token
KeyCallMetadata ==
    { WithBearer(RawCredential(s)) : s \in RawStrings } \cup
    { RawCredential(s) : s \in GenerateApiKey } \cup
    { WithBearer(SignedToken("api-rest-service", ReservedAudience,
                             DocumentedServiceSecret)) }

\* an issued-key candidate as the bare metadata value
BareKeyMetadata == { RawCredential(s) : s \in GenerateApiKey }

Next ==
    \/ Tick
    \/ \E n \in ServiceNames \cup { GhostName }, d \in DaysArgs, k \in GenerateApiKey :
          CreateApiKey(n, d, k)
    \/ \E k \in KeyLookupInputs : RevokeApiKey(k)
    \/ \E id \in 1..(Len(apiKeys) + 1) : RepositoryRevoke(id)
    \/ \E id \in 1..(Len(apiKeys) + 1), e \in ExpiryInputs : RepositoryResetExpiry(id, e)
    \/ \E w \in ComposedWrappers : CallWithoutMetadata(w)
    \/ \E w \in ComposedWrappers, m \in BareKeyMetadata : CallWithCredential(w, m)
    \/ \E m \in KeyCallMetadata \ BareKeyMetadata :
          CallWithCredential(WrapPermission("user:get"), m)
    \/ TouchLastUsed
    \/ PermissionCheck
    \/ \E b \in HandlerBehaviours : ServiceInfoAndHandler(b)
    \/ \E b \in HandlerBehaviours : RoleCheckAndHandler(b)
    \/ StoreFailure

Spec == Init /\ [][Next]_vars

(***************************************************************************)
(* The role / permission graph is edited through ServiceRoleRepository and   *)
(* RolePermissionRepository while calls are served.                          *)
(***************************************************************************)
ServiceRoleInputs == { <<"service-1", r>> : r \in Roles }
RolePermissionInputs == { <<r, "user:get">> : r \in Roles }

\* ServiceRoleRepository.create(input): the composite key is unique
ServiceRoleCreate(sr) ==
    /\ IF sr \in serviceRoles
       THEN /\ lastOp' = OpThrows("ServiceRoleRepository.create", "unique constraint")
            /\ serviceRoles' = serviceRoles
       ELSE /\ serviceRoles' = serviceRoles \cup { sr }
            /\ lastOp' = OpOk("ServiceRoleRepository.create", << >>, 0)
    /\ call' = Forget(call)
    /\ UNCHANGED << now, apiKeys, rolePermissions, serviceEndpoints,
                    jwtLibMajor, server >>

\* ServiceRoleRepository.delete(serviceId, roleId): throws on no row
ServiceRoleDelete(sr) ==
    /\ IF sr \notin serviceRoles
       THEN /\ lastOp' = OpThrows("ServiceRoleRepository.delete", "record not found")
            /\ serviceRoles' = serviceRoles
       ELSE /\ serviceRoles' = serviceRoles \ { sr }
            /\ lastOp' = OpOk("ServiceRoleRepository.delete", << >>, 0)
    /\ call' = Forget(call)
    /\ UNCHANGED << now, apiKeys, rolePermissions, serviceEndpoints,
                    jwtLibMajor, server >>

\* RolePermissionRepository.create(input)
RolePermissionCreate(rp) ==
    /\ IF rp \in rolePermissions
       THEN /\ lastOp' = OpThrows("RolePermissionRepository.create", "unique constraint")
            /\ rolePermissions' = rolePermissions
       ELSE /\ rolePermissions' = rolePermissions \cup { rp }
            /\ lastOp' = OpOk("RolePermissionRepository.create", << >>, 0)
    /\ call' = Forget(call)
    /\ UNCHANGED << now, apiKeys, serviceRoles, serviceEndpoints,
                    jwtLibMajor, server >>

\* RolePermissionRepository.delete(roleId, permissionId)
RolePermissionDelete(rp) ==
    /\ IF rp \notin rolePermissions
       THEN /\ lastOp' = OpThrows("RolePermissionRepository.delete", "record not found")
            /\ rolePermissions' = rolePermissions
       ELSE /\ rolePermissions' = rolePermissions \ { rp }
            /\ lastOp' = OpOk("RolePermissionRepository.delete", << >>, 0)
    /\ call' = Forget(call)
    /\ UNCHANGED << now, apiKeys, serviceRoles, serviceEndpoints,
                    jwtLibMajor, server >>

\* a key issued earlier to api-rest-service by createApiKey, still valid
IssuedKey == CHOOSE k \in GenerateApiKey : TRUE

InitGraph ==
    /\ now = 0
    /\ apiKeys = << NewApiKeyRow(IssuedKey, "service-1",
                                 0 + config.apiKeyExpirationDays, 0) >>
    /\ serviceRoles = SeedServiceRoles
    /\ rolePermissions = SeedRolePermissions
    /\ serviceEndpoints = { }
    /\ jwtLibMajor \in { 8, 9 }
    /\ call = IdleCall
    /\ lastOp = NoOp
    /\ server = NewGrpcServer

GraphCallMetadata ==
    { WithBearer(t) : t \in Tokens } \cup { WithBearer(RawCredential(IssuedKey)) }

NextGraph ==
    \/ \E sr \in ServiceRoleInputs : ServiceRoleCreate(sr)
    \/ \E sr \in ServiceRoleInputs : ServiceRoleDelete(sr)
    \/ \E rp \in RolePermissionInputs : RolePermissionCreate(rp)
    \/ \E rp \in RolePermissionInputs : RolePermissionDelete(rp)
    \/ \E w \in ComposedWrappers : CallWithoutMetadata(w)
    \/ \E w \in ComposedWrappers, m \in GraphCallMetadata : CallWithCredential(w, m)
    \/ TouchLastUsed
    \/ PermissionCheck
    \/ \E b \in HandlerBehaviours : ServiceInfoAndHandler(b)
    \/ \E b \in HandlerBehaviours : RoleCheckAndHandler(b)
    \/ StoreFailure

SpecGraph == InitGraph /\ [][NextGraph]_vars

(***************************************************************************)
(* Handler composition: applyServiceAuthMiddleware and the functions it      *)
(* dispatches to.  A handler map is a function from method names to the      *)
(* wrapper put around the business handler.                                  *)
(***************************************************************************)
GrpcServices == { "UserService", "InfraService" }

MethodsOf(serviceName) ==
    IF serviceName = "UserService" THEN { "getUser", "createUser" }
    ELSE { "healthCheck" }

\* the implementation object of a service: every method is the business handler
OriginalImplementation(serviceName) ==
    [ m \in MethodsOf(serviceName) |-> Unwrapped ]

NoMap == [ defined |-> FALSE, map |-> << >> ]
PermissionMap(f) == [ defined |-> TRUE, map |-> f ]

\* the second argument of applyServiceAuthMiddleware: an options object, or
\* any other value such as a string (which has none of the option properties)
ObjectOptions(level, requiredRole, endpointPermissions, serviceName) ==
    [ isObject |-> TRUE, level |-> level, requiredRole |-> requiredRole,
      endpointPermissions |-> endpointPermissions, serviceName |-> serviceName ]

StringValue(str) ==
    [ isObject |-> FALSE, level |-> Undefined, requiredRole |-> Undefined,
      endpointPermissions |-> NoMap, serviceName |-> Undefined, str |-> str ]

\* options?.level, options?.requiredRole, options?.serviceName
OptionString(options, field) ==
    IF options.isObject THEN options[field] ELSE Undefined

\* options?.endpointPermissions
OptionEndpointPermissions(options) ==
    IF options.isObject THEN options.endpointPermissions ELSE NoMap

\* getServiceEndpointPermissions(serviceName)
GetServiceEndpointPermissions(rows, serviceName) ==
    LET mine == { r \in rows : r.serviceName = serviceName } IN
    [ e \in { r.endpointName : r \in mine } |->
        (CHOOSE r \in mine : r.endpointName = e).permission ]

\* endpointPermissions[methodName]: an own property, else a function that
\* every object literal inherits from Object.prototype, else undefined
GetProperty(obj, name) ==
    IF name \in DOMAIN obj THEN obj[name]
    ELSE IF name \in { "constructor", "toString", "valueOf", "hasOwnProperty",
                       "isPrototypeOf" }
    THEN "<function>"
    ELSE Undefined

\* if (permission): undefined and the empty string are falsy
Truthy(v) == v # Undefined /\ v # ""

\* every method is put behind a check, the unlisted ones behind
\* requireServiceAuth without a role
RequireServiceAuthEndpoint_WrapAll(impl, endpointPermissions) ==
    [ m \in DOMAIN impl |->
        IF Truthy(GetProperty(endpointPermissions, m))
        THEN WrapPermission(GetProperty(endpointPermissions, m))
        ELSE WrapRole(Undefined) ]

\* requireServiceAuthEndpoint(serviceImplementation, endpointPermissions)
RequireServiceAuthEndpoint(impl, endpointPermissions) ==
    [ m \in DOMAIN impl |->
        IF Truthy(GetProperty(endpointPermissions, m))
        THEN WrapPermission(GetProperty(endpointPermissions, m))
        ELSE impl[m] ]

\* requireServiceAuthGlobal(serviceImplementation, requiredRole)
RequireServiceAuthGlobal(impl, requiredRole) ==
    [ m \in DOMAIN impl |-> WrapRole(requiredRole) ]

\* the rows of the named service are fetched whenever a service name is
\* given, and replace the map given in the options
ApplyServiceAuthMiddleware_StoreFirst(impl, options, rows, storeFails) ==
    LET level    == IF OptionString(options, "level") = Undefined THEN "endpoint"
                    ELSE OptionString(options, "level")
        given    == OptionEndpointPermissions(options)
        fetch    == OptionString(options, "serviceName") # Undefined
        resolved == IF fetch
                    THEN PermissionMap(GetServiceEndpointPermissions(
                             rows, OptionString(options, "serviceName")))
                    ELSE given
    IN
    CASE level = "global" ->
           [ threw |-> FALSE, queried |-> FALSE,
             impl  |-> RequireServiceAuthGlobal(impl, OptionString(options, "requiredRole")) ]
      [] level = "endpoint" /\ fetch /\ storeFails ->
           [ threw |-> TRUE, queried |-> TRUE, impl |-> impl ]
      [] level = "endpoint" /\ resolved.defined ->
           [ threw |-> FALSE, queried |-> fetch,
             impl  |-> RequireServiceAuthEndpoint(impl, resolved.map) ]
      [] OTHER ->
           [ threw |-> FALSE, queried |-> FALSE, impl |-> impl ]

\* applyServiceAuthMiddleware(serviceImplementation, options); storeFails
\* tells whether a query it issues rejects
ApplyServiceAuthMiddleware(impl, options, rows, storeFails) ==
    LET level    == IF OptionString(options, "level") = Undefined THEN "endpoint"
                    ELSE OptionString(options, "level")
        given    == OptionEndpointPermissions(options)
        fetch    == ~given.defined /\ OptionString(options, "serviceName") # Undefined
        resolved == IF fetch
                    THEN PermissionMap(GetServiceEndpointPermissions(
                             rows, OptionString(options, "serviceName")))
                    ELSE given
    IN
    CASE level = "global" ->
           [ threw |-> FALSE, queried |-> FALSE,
             impl  |-> RequireServiceAuthGlobal(impl, OptionString(options, "requiredRole")) ]
      [] level = "endpoint" /\ fetch /\ storeFails ->
           [ threw |-> TRUE, queried |-> TRUE, impl |-> impl ]
      [] level = "endpoint" /\ resolved.defined ->
           [ threw |-> FALSE, queried |-> fetch,
             impl  |-> RequireServiceAuthEndpoint(impl, resolved.map) ]
      [] OTHER ->
           [ threw |-> FALSE, queried |-> FALSE, impl |-> impl ]

(***************************************************************************)
(* GrpcServer                                                                *)
(***************************************************************************)

ServiceDefinition(serviceName, implementation, applyAuth) ==
    [ serviceName |-> serviceName, implementation |-> implementation,
      applyAuth |-> applyAuth ]

\* no handler map: addService ended before it had one to register
NoImplementation == << >>

RegisteredNames(srv) == { srv.handlers[i].serviceName : i \in 1..Len(srv.handlers) }

\* this.server.addService(serviceObj.service, implementation);
\* this.services.push(serviceDefinition)
\* grpc.Server.addService throws when a method already has a handler
Register(srv, def, implementation) ==
    IF implementation = NoImplementation \/ def.serviceName \in RegisteredNames(srv)
    THEN [ srv EXCEPT !.pending = << >> ]
    ELSE [ srv EXCEPT !.pending = << >>,
             !.handlers = Append(srv.handlers,
                 [ serviceName |-> def.serviceName, impl |-> implementation ]),
             !.services = Append(srv.services,
                 [ serviceName |-> def.serviceName, applyAuth |-> def.applyAuth ]) ]

\* whether the catch around the awaited applyServiceAuthMiddleware runs: the
\* promise rejects, for a failed query of the middleware or (rejects) for any
\* other cause, as when the module is replaced
AddServiceCaught(def, rows, storeFails, rejects) ==
    \/ rejects
    \/ ApplyServiceAuthMiddleware(def.implementation,
           StringValue(def.serviceName), rows, storeFails).threw

\* the rejection is not caught: addService ends there
AddServiceImplementation_Rethrown(def, rows, storeFails, rejects) ==
    IF AddServiceCaught(def, rows, storeFails, rejects)
    THEN NoImplementation
    ELSE ApplyServiceAuthMiddleware(def.implementation,
             StringValue(def.serviceName), rows, storeFails).impl

\* the implementation addService registers once the middleware has been
\* applied: the call passes the service name itself as the options argument
AddServiceImplementation(def, rows, storeFails, rejects) ==
    IF AddServiceCaught(def, rows, storeFails, rejects)
    THEN def.implementation
    ELSE ApplyServiceAuthMiddleware(def.implementation,
             StringValue(def.serviceName), rows, storeFails).impl

\* logger.warn in the catch of addService
NoAuthConfigurationWarning == "No auth configuration found"

\* what addService returns or throws when it registers def
AddServiceResult(srv, def, implementation, caught) ==
    IF implementation = NoImplementation
    THEN OpThrows("addService", "middleware error")
    ELSE IF def.serviceName \in RegisteredNames(srv)
    THEN [ OpThrows("addService", "Method handler already provided")
             EXCEPT !.detail = IF caught THEN NoAuthConfigurationWarning ELSE "" ]
    ELSE [ OpOk("addService", << >>, 0)
             EXCEPT !.detail = IF caught THEN NoAuthConfigurationWarning ELSE "" ]

\* addService(serviceDefinition), up to its first await
AddServiceBegin(def) ==
    /\ server.pending = << >>
    /\ IF def.applyAuth # "false"
       THEN /\ server' = [ server EXCEPT !.pending = << def >> ]
            /\ lastOp' = NoOp
       ELSE /\ server' = Register(server, def, def.implementation)
            /\ lastOp' = AddServiceResult(server, def, def.implementation, FALSE)
    /\ call' = Forget(call)
    /\ UNCHANGED << now, apiKeys, serviceRoles, rolePermissions,
                    serviceEndpoints, jwtLibMajor >>

\* addService, from the middleware's result to the end
AddServiceFinish(storeFails, rejects) ==
    /\ server.pending # << >>
    /\ LET def    == server.pending[1]
           caught == AddServiceCaught(def, serviceEndpoints, storeFails, rejects)
           impl   == AddServiceImplementation(def, serviceEndpoints, storeFails,
                                              rejects)
       IN /\ server' = Register(server, def, impl)
          /\ lastOp' = AddServiceResult(server, def, impl, caught)
    /\ call' = Forget(call)
    /\ UNCHANGED << now, apiKeys, serviceRoles, rolePermissions,
                    serviceEndpoints, jwtLibMajor >>

\* the states of the grpc.Server after tryShutdown / forceShutdown
TerminalPhases == { "stopped", "forceShutdown" }

\* start(): the port is bound and the server serves; bindAsync on a server
\* that was shut down throws, and bound again on a serving one changes nothing
Start ==
    /\ IF server.phase \in TerminalPhases
       THEN /\ server' = server
            /\ lastOp' = OpThrows("start", "bindAsync called after shutdown")
       ELSE /\ server' = [ server EXCEPT !.phase = "started" ]
            /\ lastOp' = OpOk("start", << >>, 0)
    /\ call' = Forget(call)
    /\ UNCHANGED << now, apiKeys, serviceRoles, rolePermissions,
                    serviceEndpoints, jwtLibMajor >>

\* stop(): this.server.tryShutdown
Stop ==
    /\ server' = IF server.phase \in TerminalPhases THEN server
                 ELSE [ server EXCEPT !.phase = "stopped" ]
    /\ lastOp' = OpOk("stop", << >>, 0)
    /\ call' = Forget(call)
    /\ UNCHANGED << now, apiKeys, serviceRoles, rolePermissions,
                    serviceEndpoints, jwtLibMajor >>

\* forceShutdown(): this.server.forceShutdown
ForceShutdown ==
    /\ server' = IF server.phase \in TerminalPhases THEN server
                 ELSE [ server EXCEPT !.phase = "forceShutdown" ]
    /\ lastOp' = OpOk("forceShutdown", << >>, 0)
    /\ call' = Forget(call)
    /\ UNCHANGED << now, apiKeys, serviceRoles, rolePermissions,
                    serviceEndpoints, jwtLibMajor >>

RegisteredHandler(srv, serviceName, method) ==
    (CHOOSE h \in Range(srv.handlers) : h.serviceName = serviceName).impl[method]

\* the business handler is registered as is: grpc calls it directly
InvokeOriginal(c, behaviour) ==
    [ c EXCEPT !.pc = "done", !.invoked = TRUE,
               !.responded = (behaviour # "throw"),
               !.callbacks = IF behaviour = "throw" THEN 0 ELSE 1 ]

\* a call to a registered method, with or without the metadata entry
RegisteredCall(serviceName, method, hasMeta, meta, behaviour) ==
    /\ server.phase = "started"
    /\ serviceName \in RegisteredNames(server)
    /\ method \in MethodsOf(serviceName)
    /\ CanBegin
    /\ LET wrap == RegisteredHandler(server, serviceName, method)
           c0   == [ IdleCall EXCEPT !.target = <<serviceName, method>>,
                                     !.wrap = wrap, !.hasMeta = hasMeta ]
       IN call' =
            IF wrap = Unwrapped THEN InvokeOriginal(c0, behaviour)
            ELSE IF ~hasMeta
            THEN Reject(c0, GrpcError("UNAUTHENTICATED", "Missing service token"))
            ELSE VerifyServiceToken(
                   [ c0 EXCEPT !.token = [ meta EXCEPT !.chars = StripBearer(meta.chars) ] ],
                   apiKeys, now, jwtLibMajor)
    /\ lastOp' = NoOp
    /\ UNCHANGED << now, apiKeys, serviceRoles, rolePermissions,
                    serviceEndpoints, jwtLibMajor, server >>

(***************************************************************************)
(* ServiceEndpointRepository: the endpoint policies                          *)
(***************************************************************************)
EndpointRow(serviceName, endpointName, permission) ==
    [ serviceName |-> serviceName, endpointName |-> endpointName,
      permission |-> permission ]

EndpointRowInputs ==
    { EndpointRow("UserService", "getUser", "user:get"),
      EndpointRow("InfraService", "getUser", "user:get") }

SameEndpoint(a, b) ==
    a.serviceName = b.serviceName /\ a.endpointName = b.endpointName

\* ServiceEndpointRepository.create(input): (serviceName, endpointName) is unique
ServiceEndpointCreate(row) ==
    /\ IF \E r \in serviceEndpoints : SameEndpoint(r, row)
       THEN /\ lastOp' = OpThrows("ServiceEndpointRepository.create", "unique constraint")
            /\ serviceEndpoints' = serviceEndpoints
       ELSE /\ serviceEndpoints' = serviceEndpoints \cup { row }
            /\ lastOp' = OpOk("ServiceEndpointRepository.create", << >>, 0)
    /\ call' = Forget(call)
    /\ UNCHANGED << now, apiKeys, serviceRoles, rolePermissions,
                    jwtLibMajor, server >>

\* ServiceEndpointRepository.delete(id): throws on no row
ServiceEndpointDelete(row) ==
    /\ IF row \notin serviceEndpoints
       THEN /\ lastOp' = OpThrows("ServiceEndpointRepository.delete", "record not found")
            /\ serviceEndpoints' = serviceEndpoints
       ELSE /\ serviceEndpoints' = serviceEndpoints \ { row }
            /\ lastOp' = OpOk("ServiceEndpointRepository.delete", << >>, 0)
    /\ call' = Forget(call)
    /\ UNCHANGED << now, apiKeys, serviceRoles, rolePermissions,
                    jwtLibMajor, server >>

(***************************************************************************)
(* The server being assembled and serving: services are registered with      *)
(* addService, or composed by the caller with applyServiceAuthMiddleware     *)
(* and an options object and then registered with applyAuth: false.          *)
(***************************************************************************)
ComposeOptions(serviceName) ==
    { ObjectOptions("endpoint", Undefined, NoMap, serviceName),
      ObjectOptions("endpoint", Undefined,
                    PermissionMap([ m \in { "createUser" } |-> "user:create" ]),
                    serviceName),
      ObjectOptions("endpoint", Undefined,
                    PermissionMap([ m \in { "getUser", "createUser" } |->
                                      IF m = "getUser" THEN "" ELSE "user:create" ]),
                    Undefined),
      ObjectOptions("global", "service-admin", NoMap, Undefined) }

\* const wrapped = await applyServiceAuthMiddleware(impl, options);
\* await server.addService({ ..., implementation: wrapped, applyAuth: false })
AddComposedService(serviceName, options) ==
    AddServiceBegin(ServiceDefinition(serviceName,
        ApplyServiceAuthMiddleware(OriginalImplementation(serviceName), options,
                                   serviceEndpoints, FALSE).impl,
        "false"))

HarnessCallMetadata ==
    { WithBearer(RawCredential(IssuedKey)),
      WithBearer(RawCredential(UpperA64)) }

InitHarness == InitGraph /\ jwtLibMajor = 9

NextHarness ==
    \/ \E row \in EndpointRowInputs : ServiceEndpointCreate(row)
    \/ \E row \in EndpointRowInputs : ServiceEndpointDelete(row)
    \/ \E n \in GrpcServices, a \in { "true", "false", Undefined } :
          AddServiceBegin(ServiceDefinition(n, OriginalImplementation(n), a))
    \/ \E f \in BOOLEAN, r \in BOOLEAN : AddServiceFinish(f, r)
    \/ \E o \in ComposeOptions("UserService") : AddComposedService("UserService", o)
    \/ Start
    \/ Stop
    \/ ForceShutdown
    \/ \E n \in GrpcServices, m \in { "getUser", "createUser", "healthCheck" },
          b \in HandlerBehaviours :
          RegisteredCall(n, m, FALSE, NoCredential, b)
    \/ \E n \in GrpcServices, m \in { "getUser", "createUser", "healthCheck" },
          c \in HarnessCallMetadata, b \in HandlerBehaviours :
          RegisteredCall(n, m, TRUE, c, b)
    \/ TouchLastUsed
    \/ PermissionCheck
    \/ \E b \in HandlerBehaviours : ServiceInfoAndHandler(b)
    \/ \E b \in HandlerBehaviours : RoleCheckAndHandler(b)
    \/ StoreFailure

SpecHarness == InitHarness /\ [][NextHarness]_vars

(***************************************************************************)
(* Both issuing paths: createApiKey of the middleware and, behind the        *)
(* ApiKey service, ApiKeyRepository.create; the keys they return are         *)
(* presented to the composed handlers.                                       *)
(***************************************************************************)
IssueCallMetadata ==
    { RawCredential(k) : k \in GenerateApiKey \cup UuidPool }

InitIssue ==
    /\ now = 0
    /\ apiKeys = << >>
    /\ serviceRoles = SeedServiceRoles
    /\ rolePermissions = SeedRolePermissions
    /\ serviceEndpoints = { }
    /\ jwtLibMajor = 9
    /\ call = IdleCall
    /\ lastOp = NoOp
    /\ server = NewGrpcServer

NextIssue ==
    \/ Tick
    \/ \E n \in ServiceNames \cup { GhostName }, d \in DaysArgs, k \in GenerateApiKey :
          CreateApiKey(n, d, k)
    \/ \E id \in ServiceIds, e \in ExpiryInputs, k \in UuidPool :
          RepositoryCreate(id, e, k)
    \/ \E w \in ComposedWrappers, m \in IssueCallMetadata : CallWithCredential(w, m)
    \/ TouchLastUsed
    \/ PermissionCheck
    \/ \E b \in HandlerBehaviours : ServiceInfoAndHandler(b)
    \/ \E b \in HandlerBehaviours : RoleCheckAndHandler(b)
    \/ StoreFailure

SpecIssue == InitIssue /\ [][NextIssue]_vars

(***************************************************************************)
(* The ApiKey operations of the auth gRPC service (ApiKeyService over        *)
(* ApiKeyRepository) next to createApiKey of the provisioning script.  Each  *)
(* handler answers with the fields of the rows its service call returned.    *)
(***************************************************************************)

NextKeyService ==
    \/ Tick
    \/ \E n \in ServiceNames, d \in DaysArgs, k \in GenerateApiKey :
          CreateApiKey(n, d, k)
    \/ \E id \in ServiceIds, e \in ExpiryInputs, k \in UuidPool :
          RepositoryCreate(id, e, k)
    \/ \E id \in 1..(Len(apiKeys) + 1) : GetApiKey(id)
    \/ \E id \in ServiceIds \cup { Undefined } : ListApiKeys(id)
    \/ \E id \in 1..(Len(apiKeys) + 1) : RepositoryRevoke(id)
    \/ \E id \in 1..(Len(apiKeys) + 1), e \in ExpiryInputs : RepositoryResetExpiry(id, e)

SpecKeyService == InitIssue /\ [][NextKeyService]_vars

(***************************************************************************)
(* Every kind of credential presented while keys are issued, revoked and     *)
(* left to expire, under either major version of jsonwebtoken.               *)
(***************************************************************************)
VerifyWrappers == { WrapPermission("user:get"), WrapRole("service-admin") }


InitVerify ==
    /\ now = 0
    /\ apiKeys = << >>
    /\ serviceRoles = SeedServiceRoles
    /\ rolePermissions = SeedRolePermissions
    /\ serviceEndpoints = { }
    /\ jwtLibMajor \in { 8, 9 }
    /\ call = IdleCall
    /\ lastOp = NoOp
    /\ server = NewGrpcServer

NextVerify ==
    \/ Tick
    \/ \E n \in ServiceNames, d \in DaysArgs, k \in GenerateApiKey :
          CreateApiKey(n, d, k)
    \/ \E k \in GenerateApiKey : RevokeApiKey(k)
    \/ \E w \in VerifyWrappers : CallWithoutMetadata(w)
    \/ \E w \in VerifyWrappers, m \in { WithBearer(c) : c \in Credentials } :
          CallWithCredential(w, m)
    \/ TouchLastUsed
    \/ PermissionCheck
    \/ \E b \in HandlerBehaviours : ServiceInfoAndHandler(b)
    \/ \E b \in HandlerBehaviours : RoleCheckAndHandler(b)
    \/ StoreFailure

SpecVerify == InitVerify /\ [][NextVerify]_vars

\* the same calls, with the first store read of a call failing as well
NextStore ==
    \/ NextVerify
    \/ \E w \in VerifyWrappers, c \in Credentials : LookupFailure(w, WithBearer(c))

SpecStore == InitVerify /\ [][NextStore]_vars

\* the continuation of a call after the store operation it awaits has
\* settled, by resolving or by rejecting
CallStep ==
    \/ TouchLastUsed
    \/ PermissionCheck
    \/ \E b \in HandlerBehaviours : ServiceInfoAndHandler(b)
    \/ \E b \in HandlerBehaviours : RoleCheckAndHandler(b)
    \/ StoreFailure

\* every store operation a call awaits settles, and the event loop then runs
\* the continuation of the call
SpecLive == SpecStore /\ WF_vars(CallStep)

(***************************************************************************)
(* The user-token middleware (auth.middleware, src/unnamed/part_016) and     *)
(* its service-level configuration: requireAuthService over                  *)
(* requireAuthGlobal and verifyTokenAndRole.  It is written against the      *)
(* loadServerConfig of src/unnamed/part_014, which has a jwtSecret.          *)
(***************************************************************************)
\* const JWT_SECRET = config.jwtSecret, and
\* jwtSecret: process.env.JWT_SECRET || 'super-secret'
JWT_SECRET == "super-secret"

\* the allowedRoles of a ServiceAuthConfig when it is given
RolesGiven(list) == [ given |-> TRUE, list |-> list ]

\* ServiceAuthConfig { enabled: boolean; allowedRoles?: string[] }
ServiceAuthConfigs ==
    { [ enabled |-> e, allowedRoles |-> r ] :
        e \in BOOLEAN,
        r \in { [ given |-> FALSE, list |-> << >> ],
                RolesGiven(<< >>), RolesGiven(<< "admin" >>),
                RolesGiven(<< "admin", "user" >>) } }

\* the handler requireAuthGlobal puts in place of a method
WrapAuth(allowedRoles) == [ kind |-> "auth", arg |-> "", roles |-> allowedRoles ]

\* a user token: jwt.sign({ userId, role }, secret); role may be absent
UserToken(role, sig) ==
    [ chars  |-> << "h", ".", "p", ".", "s" >>,
      claims |-> [ sub |-> "123", aud |-> "", sig |-> sig, role |-> role ] ]

UserCredentials ==
    { UserToken("admin", "super-secret"),
      UserToken("user", "super-secret"),
      UserToken("guest", "super-secret"),
      UserToken(Undefined, "super-secret"),
      UserToken("admin", "another-secret"),
      UserToken("admin", "none"),
      [ chars  |-> << "x" >>,
        claims |-> [ sub |-> "", aud |-> "", sig |-> "malformed", role |-> Undefined ] ] }

MissingUserTokenError == GrpcError("UNAUTHENTICATED", "Missing token")
InvalidUserTokenError == GrpcError("UNAUTHENTICATED", "Invalid token")
InsufficientUserRoleError == GrpcError("PERMISSION_DENIED", "Insufficient role")

\* verifyTokenAndRole(call, allowedRoles): the error it throws, or NoError
VerifyTokenAndRole(hasMeta, token, allowedRoles, libMajor) ==
    IF ~hasMeta THEN MissingUserTokenError
    ELSE IF ~JwtVerify(token, JWT_SECRET, libMajor) THEN InvalidUserTokenError
    ELSE IF /\ allowedRoles.given
            /\ Len(allowedRoles.list) > 0
            /\ token.claims.role \notin Range(allowedRoles.list)
    THEN InsufficientUserRoleError
    ELSE NoError

\* requireAuthGlobal(serviceImplementation, allowedRoles)
RequireAuthGlobal(impl, allowedRoles) ==
    [ m \in DOMAIN impl |-> WrapAuth(allowedRoles) ]

\* the enable switch is not looked at
RequireAuthService_AlwaysEnabled(impl, authConfig) ==
    RequireAuthGlobal(impl, authConfig.allowedRoles)

\* requireAuthService(serviceImplementation, authConfig)
RequireAuthService(impl, authConfig) ==
    IF ~authConfig.enabled THEN impl
    ELSE RequireAuthGlobal(impl, authConfig.allowedRoles)

\* const wrapped = requireAuthService(impl, authConfig);
\* await server.addService({ ..., implementation: wrapped, applyAuth: false })
AddAuthService(serviceName, authConfig) ==
    AddServiceBegin(ServiceDefinition(serviceName,
        RequireAuthService(OriginalImplementation(serviceName), authConfig),
        "false"))

\* a call to a method of a service registered that way: the whole wrapper
\* runs without a store operation
UserCall(serviceName, method, hasMeta, meta, behaviour) ==
    /\ server.phase = "started"
    /\ serviceName \in RegisteredNames(server)
    /\ method \in MethodsOf(serviceName)
    /\ CanBegin
    /\ LET wrap == RegisteredHandler(server, serviceName, method)
           tok  == [ meta EXCEPT !.chars = StripBearer(meta.chars) ]
           c0   == [ IdleCall EXCEPT !.target = << serviceName, method >>,
                                     !.wrap = wrap, !.hasMeta = hasMeta,
                                     !.token = IF hasMeta THEN tok ELSE NoCredential ]
       IN call' =
            IF wrap.kind = "original" THEN InvokeOriginal(c0, behaviour)
            ELSE LET err == VerifyTokenAndRole(hasMeta, tok, wrap.roles, jwtLibMajor) IN
                 IF err # NoError
                 THEN Reject([ c0 EXCEPT !.jwtVerified = hasMeta,
                                         !.verified = ( err = InsufficientUserRoleError ) ],
                             err)
                 ELSE InvokeHandler([ c0 EXCEPT !.jwtVerified = TRUE, !.verified = TRUE ],
                                    NoServiceInfo, behaviour)
    /\ lastOp' = NoOp
    /\ UNCHANGED << now, apiKeys, serviceRoles, rolePermissions,
                    serviceEndpoints, jwtLibMajor, server >>

NextUserAuth ==
    \/ \E n \in GrpcServices, cfg \in ServiceAuthConfigs : AddAuthService(n, cfg)
    \/ Start
    \/ Stop
    \/ \E n \in GrpcServices, m \in { "getUser", "healthCheck" },
          b \in HandlerBehaviours :
          UserCall(n, m, FALSE, NoCredential, b)
    \/ \E n \in GrpcServices, m \in { "getUser", "healthCheck" },
          c \in UserCredentials, b \in HandlerBehaviours :
          UserCall(n, m, TRUE, WithBearer(c), b)

SpecUserAuth == InitVerify /\ [][NextUserAuth]_vars

(***************************************************************************)
(* Properties                                                                *)
(***************************************************************************)
\* what the properties mean by a 64-character hexadecimal string
SixtyFourHex(s) ==
    /\ Len(s) = 64
    /\ \A i \in 1..Len(s) :
         s[i] \in { "0","1","2","3","4","5","6","7","8","9",
                    "a","b","c","d","e","f","A","B","C","D","E","F" }

IsSignedToken(tok) == tok.claims.sig # "malformed"

\* the permissions / roles a caller name holds in the current graph
HoldsPermission(name, p) ==
    \E id \in ServiceIds, r \in Roles :
        /\ ServiceNameOf(id) = name
        /\ <<id, r>> \in serviceRoles
        /\ <<r, p>> \in rolePermissions

HoldsRole(name, r) ==
    \E id \in ServiceIds : ServiceNameOf(id) = name /\ <<id, r>> \in serviceRoles

\* this step is a call presenting the secret of the stored key i
PresentsKey(i) ==
    /\ call.pc \in { "idle", "done" }
    /\ call' # call
    /\ call'.hasMeta
    /\ i \in 1..Len(apiKeys)
    /\ call'.token.chars = apiKeys[i].key

ExpiredError == GrpcError("UNAUTHENTICATED", "API key has expired")
RevokedError == GrpcError("UNAUTHENTICATED", "API key has been revoked")
UnknownKeyError == GrpcError("UNAUTHENTICATED", "Invalid API key")
InvalidTokenError == GrpcError("UNAUTHENTICATED", "Invalid service token")

\* C1: a revoked API key stays revoked, and a call presenting it is never
\* classified as valid, whatever its expiresAt is or is reset to.
C1_RevokedNeverValid ==
    [][ \A i \in 1..Len(apiKeys) :
          apiKeys[i].isRevoked =>
            /\ apiKeys'[i].isRevoked
            /\ PresentsKey(i) => ( ~call'.verified /\ call'.pc = "done"
                                   /\ call'.err.code = "UNAUTHENTICATED" ) ]_vars

\* a revoked key whose expiry lies in the future was presented and refused
C1_Witness ==
    /\ call.pc = "done"
    /\ call.keyId \in 1..Len(apiKeys)
    /\ call.err = RevokedError
    /\ apiKeys[call.keyId].isRevoked
    /\ apiKeys[call.keyId].expiresAt > now
    /\ apiKeys[call.keyId].lastUsedAt # NullDate

\* C2: when addService registers a service with applyAuth not false, every
\* method for which the store holds a policy row under that service's name is
\* registered behind the permission check of that row.
C2_AddServiceAppliesStorePolicy ==
    [][ ( /\ server.pending # << >>
          /\ Len(server'.handlers) = Len(server.handlers) + 1 )
        => LET def == server.pending[1]
               h   == server'.handlers[Len(server'.handlers)]
           IN \A r \in serviceEndpoints :
                ( r.serviceName = def.serviceName /\ r.endpointName \in DOMAIN h.impl )
                => h.impl[r.endpointName] = WrapPermission(r.permission) ]_vars

C4_HandlerOnlyAfterChecks ==
    /\ call.invoked =>
         /\ call.hasMeta
         /\ call.verified
         /\ call.serviceName \in ServiceNames
         /\ call.wrap.kind = "permission" =>
               HoldsPermission(call.serviceName, call.wrap.arg)
         /\ ( call.wrap.kind = "role" /\ call.wrap.arg # Undefined ) =>
               HoldsRole(call.serviceName, call.wrap.arg)
    /\ ( call.pc = "done" /\ call.err # NoError /\ call.err # HandlerError ) =>
         ( ~call.invoked /\ call.callbacks = 1 )

\* a verified caller was refused for its role and the handler did not run
C4_Witness ==
    /\ call.pc = "done"
    /\ call.verified
    /\ call.err = GrpcError("PERMISSION_DENIED", "Insufficient service role")
    /\ ~call.invoked
    /\ call.callbacks = 1

C9_SignedTokenAccepted ==
    ( /\ call.pc = "done"
      /\ call.wrap = WrapRole(Undefined)
      /\ call.token.claims.sig = DocumentedServiceSecret
      /\ call.token.claims.aud = "grpc_auth"
      /\ call.token.claims.sub \in ServiceNames
      /\ call.err # StoreError )
    => ( call.invoked /\ call.attached.serviceName = call.token.claims.sub )

\* C10: a call presenting a token whose subject is no service name never has
\* its handler invoked, under any wrapper.
C10_UnknownSubjectNeverInvoked ==
    ( IsSignedToken(call.token) /\ call.token.claims.sub \notin ServiceNames )
    => ~call.invoked

\* such a token passed jwt.verify and the audience test and was refused by
\* the service lookup
C10_Witness ==
    /\ call.pc = "done"
    /\ call.token.claims.sub \notin ServiceNames
    /\ call.token.claims.aud = "grpc_auth"
    /\ call.verified
    /\ call.err.code = "PERMISSION_DENIED"
    /\ ~call.invoked

\* the permissions granted by the roles a service name holds
GrantedUnion(name) ==
    UNION { { p \in Perms : <<r, p>> \in rolePermissions } :
            r \in { q \in Roles : \E id \in ServiceIds :
                        ServiceNameOf(id) = name /\ <<id, q>> \in serviceRoles } }

\* C11: checkServicePermission(name, p) is true exactly when p is in the
\* union of the permissions granted by the roles the service named name holds
\* in the current graph; a service without roles and a name that is no
\* service get false for every p.
C11_HasPermissionIsUnion ==
    /\ \A name \in ServiceNames \cup { GhostName }, p \in Perms :
          CheckServicePermission(serviceRoles, rolePermissions, name, p)
             <=> p \in GrantedUnion(name)
    /\ \A p \in Perms :
          ~CheckServicePermission(serviceRoles, rolePermissions, GhostName, p)
    /\ \A id \in ServiceIds, p \in Perms :
          ( \A r \in Roles : <<id, r>> \notin serviceRoles )
          => ~CheckServicePermission(serviceRoles, rolePermissions,
                                     ServiceNameOf(id), p)

\* a verified caller that holds no role was refused a permission
C11_Witness ==
    /\ call.pc = "done"
    /\ call.verified
    /\ call.serviceName = "api-rest-service"
    /\ call.wrap.kind = "permission"
    /\ \A r \in Roles : <<"service-1", r>> \notin serviceRoles
    /\ call.err.code = "PERMISSION_DENIED"
    /\ ~call.authorized

\* C12: the permission check of a call decides on the graph as it is when the
\* check runs: the call passes exactly when the caller holds the permission
\* in that graph, whatever earlier calls were answered, and a call that does
\* not pass ends with PERMISSION_DENIED without the handler.
C12_DecisionOnCurrentGraph ==
    [][ ( call.pc = "permission" /\ call'.pc # "permission"
          /\ call'.err # StoreError )
        => /\ call'.authorized
                <=> HoldsPermission(call.serviceName, call.wrap.arg)
           /\ ~call'.authorized
                => ( call'.pc = "done" /\ ~call'.invoked
                     /\ call'.err.code = "PERMISSION_DENIED" ) ]_vars

\* a caller that held user:get in the seeded graph and still holds a role was
\* refused after the grants were removed
C12_Witness ==
    /\ call.pc = "done"
    /\ call.verified
    /\ call.serviceName = "api-rest-service"
    /\ call.wrap = WrapPermission("user:get")
    /\ call.err.code = "PERMISSION_DENIED"
    /\ \E r \in Roles : <<"service-1", r>> \in serviceRoles
    /\ HoldsPermission("api-rest-service", "user:create")
    /\ \A r \in Roles : <<r, "user:get">> \notin rolePermissions

\* C13: createApiKey for an existing service, with the validity omitted, 0
\* or positive, returns a key that verifyServiceToken takes for an API key
\* and that verifyApiKey, run at once on the store as createApiKey left it,
\* accepts and resolves to that service.
C13_IssueThenVerify ==
    [][ ( lastOp'.op = "createApiKey" /\ lastOp'.ok )
        => \A n \in ServiceNames, d \in DaysArgs, k \in GenerateApiKey :
             ( CreateApiKey(n, d, k) /\ ~(d.given /\ d.n < 0) )
             => /\ lastOp'.key = k
                /\ ApiKeyPattern(lastOp'.key)
                /\ VerifyApiKey(apiKeys', lastOp'.key, now').ok
                /\ VerifyApiKey(apiKeys', lastOp'.key, now').serviceName = n ]_vars

\* a key issued for the default validity was presented on the day of its
\* creation, its row untouched since, and resolved to its owner
C13_Witness ==
    /\ call.keyId \in 1..Len(apiKeys)
    /\ call.token.chars = apiKeys[call.keyId].key
    /\ call.at = apiKeys[call.keyId].createdAt
    /\ apiKeys[call.keyId].expiresAt
          = apiKeys[call.keyId].createdAt + DefaultExpirationDays
    /\ ~apiKeys[call.keyId].isRevoked
    /\ call.verified
    /\ call.serviceName = ServiceNameOf(apiKeys[call.keyId].serviceId)
    /\ call.invoked

\* C14: every row added to api_keys, by createApiKey or by
\* ApiKeyRepository.create, has expiresAt strictly later than its createdAt.
C14_ExpiresAfterCreation ==
    [][ \A i \in (Len(apiKeys) + 1)..Len(apiKeys') :
          apiKeys'[i].expiresAt > apiKeys'[i].createdAt ]_vars

\* C15: every key stored in api_keys, by createApiKey or by
\* ApiKeyRepository.create, is 64 hexadecimal characters and matches the
\* verifier's API key pattern.
C15_StoredKeysAre64Hex ==
    \A i \in 1..Len(apiKeys) :
        SixtyFourHex(apiKeys[i].key) /\ ApiKeyPattern(apiKeys[i].key)

\* C16: createApiKey for a name that is no service throws 'Service not
\* found: <name>' and leaves every table as it was.
C16_IssueUnknownOwner ==
    [][ ( lastOp'.op = "createApiKey" )
        => \A n \in { GhostName }, d \in DaysArgs, k \in GenerateApiKey :
             ( CreateApiKey(n, d, k) /\ ServiceFindUniqueByName(n) = Undefined )
             => /\ ~lastOp'.ok
                /\ lastOp'.error = "Service not found: "
                /\ lastOp'.detail = n
                /\ apiKeys' = apiKeys
                /\ UNCHANGED storeVars ]_vars

\* the call was refused while the store already held a key
C16_Witness ==
    /\ lastOp.op = "createApiKey"
    /\ ~lastOp.ok
    /\ lastOp.error = "Service not found: "
    /\ lastOp.detail = GhostName
    /\ Len(apiKeys) > 0

\* C17: revokeApiKey on a stored key does not throw and leaves the row
\* revoked with every other field and every other row as before; on a row
\* that is already revoked it does not throw and changes nothing.
C17_RevokeIdempotent ==
    [][ ( lastOp'.op = "revokeApiKey" )
        => \A k \in KeyLookupInputs :
             LET i == ApiKeyFindUniqueByKey(apiKeys, k) IN
             ( RevokeApiKey(k) /\ i # 0 )
             => /\ lastOp'.ok
                /\ Len(apiKeys') = Len(apiKeys)
                /\ apiKeys'[i].isRevoked
                /\ \A j \in 1..Len(apiKeys) :
                      [ apiKeys'[j] EXCEPT !.isRevoked = apiKeys[j].isRevoked ]
                         = apiKeys[j]
                /\ apiKeys[i].isRevoked => apiKeys' = apiKeys ]_vars

\* the last revokeApiKey found its row already revoked and returned
C17_Witness ==
    /\ lastOp.op = "revokeApiKey"
    /\ lastOp.ok
    /\ lastOp.wasRevoked
    /\ lastOp.id \in 1..Len(apiKeys)
    /\ apiKeys[lastOp.id].isRevoked

\* C18 as claimed: revokeApiKey with a key that matches no row does not
\* throw and leaves the store unchanged.
C18_RevokeUnknownSilent ==
    [][ ( lastOp'.op = "revokeApiKey" )
        => \A k \in KeyLookupInputs :
             ( RevokeApiKey(k) /\ ApiKeyFindUniqueByKey(apiKeys, k) = 0 )
             => ( lastOp'.ok /\ UNCHANGED storeVars ) ]_vars

\* C18 amended: revokeApiKey with a key that matches no row throws the
\* store's record-not-found error and leaves the store unchanged.
C18_RevokeUnknownRaises ==
    [][ ( lastOp'.op = "revokeApiKey" )
        => \A k \in KeyLookupInputs :
             ( RevokeApiKey(k) /\ ApiKeyFindUniqueByKey(apiKeys, k) = 0 )
             => /\ ~lastOp'.ok
                /\ lastOp'.error = "record not found"
                /\ UNCHANGED storeVars ]_vars

\* an unknown key was given while the store held another key
C18_Witness ==
    /\ lastOp.op = "revokeApiKey"
    /\ ~lastOp.ok
    /\ lastOp.error = "record not found"
    /\ Len(apiKeys) > 0

\* C19: once verifyApiKey has returned for a stored key that is neither
\* revoked nor expired, the call carries the name of the service owning the
\* key and the key's row shows lastUsedAt equal to the time of that
\* verification.
C19_VerifiedKeyTouched ==
    ( /\ call.keyId # 0
      /\ call.verified
      /\ ( call.pc \in { "permission", "role", "info" } \/ call.touched
           \/ call.invoked ) )
    => /\ call.keyId \in 1..Len(apiKeys)
       /\ call.touched
       /\ apiKeys[call.keyId].lastUsedAt = call.at
       /\ apiKeys[call.keyId].lastUsedAt # NullDate
       /\ call.serviceName = ServiceNameOf(apiKeys[call.keyId].serviceId)

\* a key created on an earlier day was verified and its row shows the day of
\* the verification
C19_Witness ==
    /\ call.pc = "done"
    /\ call.keyId \in 1..Len(apiKeys)
    /\ call.verified
    /\ call.invoked
    /\ apiKeys[call.keyId].createdAt < call.at
    /\ apiKeys[call.keyId].lastUsedAt = call.at

\* C20: a call presenting a valid key whose owner holds the required
\* permission reaches the business handler also when the lastUsedAt update
\* was not written.
C20_TouchFailureHarmless ==
    ( /\ call.pc = "done"
      /\ call.keyId # 0
      /\ call.verified
      /\ ~call.touched
      /\ call.wrap.kind = "permission"
      /\ HoldsPermission(call.serviceName, call.wrap.arg) )
    => call.invoked

\* C21: the key of a stored row is returned only by the operation that
\* issues it (createApiKey, ApiKeyRepository.create); get, list, revoke and
\* reset-expiry return no stored key.
C21_SecretOnlyAtIssue ==
    lastOp.op \notin { "createApiKey", "ApiKeyRepository.create" }
    => ( lastOp.key = << >> /\ lastOp.keys = << >> )

\* C22: a handler map composed at endpoint level has exactly the method names
\* of the original map, and every method for which the effective permission
\* map names no permission is the original handler itself; a call to such a
\* method without the metadata entry reaches the business handler.
C22_UnlistedPassThrough ==
    [][ /\ ( server'.handlers # server.handlers )
           => \A o \in ComposeOptions("UserService") :
                ( /\ AddComposedService("UserService", o)
                  /\ OptionString(o, "level") = "endpoint"
                  /\ Len(server'.handlers) = Len(server.handlers) + 1 )
                => LET h   == server'.handlers[Len(server'.handlers)].impl
                       \* the map given in the options, else the rows of
                       \* the named service, else none
                       eff ==
                         IF OptionEndpointPermissions(o).defined
                         THEN OptionEndpointPermissions(o).map
                         ELSE IF OptionString(o, "serviceName") # Undefined
                         THEN GetServiceEndpointPermissions(serviceEndpoints,
                                  OptionString(o, "serviceName"))
                         ELSE << >>
                   IN /\ DOMAIN h = MethodsOf("UserService")
                      /\ \A m \in MethodsOf("UserService") :
                            ~Truthy(GetProperty(eff, m))
                            => h[m] = OriginalImplementation("UserService")[m]
        /\ ( /\ call.pc \in { "idle", "done" }
             /\ call' # call
             /\ call'.target # << >>
             /\ RegisteredHandler(server, call'.target[1], call'.target[2])
                   = OriginalImplementation(call'.target[1])[call'.target[2]]
             /\ ~call'.hasMeta )
           => ( call'.pc = "done" /\ call'.invoked /\ call'.err = NoError ) ]_vars

\* in a map that gates createUser, getUser was called without a credential
\* and its handler ran
C22_Witness ==
    /\ call.pc = "done"
    /\ call.target = << "UserService", "getUser" >>
    /\ ~call.hasMeta
    /\ call.invoked
    /\ "UserService" \in RegisteredNames(server)
    /\ RegisteredHandler(server, "UserService", "createUser")
          = WrapPermission("user:create")
    /\ RegisteredHandler(server, "UserService", "getUser") = Unwrapped

\* C23: when the options carry an endpoint-permission map and a service name
\* that has rows in service_endpoints, the composed map gates exactly the
\* methods the given map names, with the permissions it names, and no query
\* is issued: the result is the same whether or not the store would answer.
C23_OverrideWins ==
    [][ ( server'.handlers # server.handlers )
        => \A o \in ComposeOptions("UserService") :
             ( /\ AddComposedService("UserService", o)
               /\ OptionString(o, "level") = "endpoint"
               /\ OptionEndpointPermissions(o).defined
               /\ Len(server'.handlers) = Len(server.handlers) + 1 )
             => LET h     == server'.handlers[Len(server'.handlers)].impl
                    given == OptionEndpointPermissions(o).map
                IN /\ \A m \in MethodsOf("UserService") :
                         h[m] = IF m \in DOMAIN given /\ given[m] # ""
                                THEN WrapPermission(given[m])
                                ELSE Unwrapped
                   /\ \A f \in BOOLEAN :
                         LET r == ApplyServiceAuthMiddleware(
                                      OriginalImplementation("UserService"), o,
                                      serviceEndpoints, f)
                         IN ~r.queried /\ ~r.threw /\ r.impl = h ]_vars

\* the store holds a policy row for getUser of UserService, and the service
\* was composed from a map that names only createUser
C23_Witness ==
    /\ EndpointRow("UserService", "getUser", "user:get") \in serviceEndpoints
    /\ "UserService" \in RegisteredNames(server)
    /\ RegisteredHandler(server, "UserService", "getUser") = Unwrapped
    /\ RegisteredHandler(server, "UserService", "createUser")
          = WrapPermission("user:create")
    /\ call.pc = "permission"
    /\ call.target = << "UserService", "createUser" >>

\* C24: when the application of the middleware fails while addService
\* registers a service that is not registered yet, addService logs the
\* warning, registers the handler map it was given, appends the service to
\* its list and does not throw.
C24_FallbackOnMiddlewareFailure ==
    [][ ( server.pending # << >> /\ server'.pending = << >> )
        => \A f \in BOOLEAN, r \in BOOLEAN :
             LET def == server.pending[1] IN
             ( /\ AddServiceFinish(f, r)
               /\ AddServiceCaught(def, serviceEndpoints, f, r)
               /\ def.serviceName \notin RegisteredNames(server) )
             => /\ lastOp'.ok
                /\ lastOp'.detail = NoAuthConfigurationWarning
                /\ server'.handlers = Append(server.handlers,
                       [ serviceName |-> def.serviceName,
                         impl |-> def.implementation ])
                /\ server'.services = Append(server.services,
                       [ serviceName |-> def.serviceName,
                         applyAuth |-> def.applyAuth ]) ]_vars

\* the warning was logged for a service that had a policy row in the store,
\* and a call without metadata reached a handler of that service
C24_Witness ==
    /\ lastOp.op = "addService"
    /\ lastOp.ok
    /\ lastOp.detail = NoAuthConfigurationWarning
    /\ Len(server.services) > 0
    /\ server.services[Len(server.services)].serviceName = "UserService"
    /\ RegisteredHandler(server, "UserService", "getUser") = Unwrapped
    /\ EndpointRow("UserService", "getUser", "user:get") \in serviceEndpoints

\* C25: the server's phase only moves forward, from created to started and
\* from there (or from created, when main gives up before starting) to
\* stopped or forceShutdown, and once stop() or forceShutdown() has happened
\* no addService or start changes the server any more.
C25_NothingAfterTerminal ==
    [][ /\ ( server'.phase # server.phase )
           => << server.phase, server'.phase >> \in
                 { << "created", "started" >> } \cup
                 ( { "created", "started" } \X TerminalPhases )
        /\ ( server.phase \in TerminalPhases )
           => ( /\ server'.services = server.services
                /\ server'.handlers = server.handlers
                /\ server'.phase = server.phase ) ]_vars

\* C26: this.services changes only while the server has not been started:
\* once start() has been called no step appends to it, also when an
\* addService begun before start() finishes after it.
C26_ListFixedAfterStart ==
    [][ ( server.phase # "created" ) => ( server'.services = server.services ) ]_vars

C28_StatusByCause ==
    ( call.pc = "done" )
    => /\ ~call.verified
          => /\ call.err.code = "UNAUTHENTICATED"
             /\ ~call.invoked
             /\ ~call.hasMeta <=> call.err = GrpcError("UNAUTHENTICATED", "Missing service token")
             /\ call.hasMeta
                => call.err = ( CASE call.cause = "signature" -> InvalidTokenError
                                  [] call.cause = "audience"  -> InvalidTokenError
                                  [] call.keyId = 0           -> UnknownKeyError
                                  [] apiKeys[call.keyId].isRevoked -> RevokedError
                                  [] OTHER                    -> ExpiredError )
       /\ call.err.code = "PERMISSION_DENIED" => call.verified

\* a token refused by the audience test ended with UNAUTHENTICATED while the
\* store held a revoked key
C28_Witness ==
    /\ call.pc = "done"
    /\ call.cause = "audience"
    /\ ~call.verified
    /\ call.err.code = "UNAUTHENTICATED"
    /\ Len(apiKeys) > 0
    /\ apiKeys[1].isRevoked

InsufficientRoleError == GrpcError("PERMISSION_DENIED", "Insufficient service role")

\* C29: composing a service at global level with a required role R puts
\* every method behind requireServiceAuth(handler, R); through such a handler
\* the business handler has been invoked only for a verified caller that
\* holds role R, and a finished call of a verified caller that is a service
\* without role R was refused with PERMISSION_DENIED 'Insufficient service
\* role'.
C29_GlobalRoleGate ==
    /\ \A n \in GrpcServices, R \in Roles :
          ApplyServiceAuthMiddleware(OriginalImplementation(n),
              ObjectOptions("global", R, NoMap, Undefined),
              serviceEndpoints, FALSE).impl
            = [ m \in MethodsOf(n) |-> WrapRole(R) ]
    /\ ( call.wrap.kind = "role" /\ call.wrap.arg # Undefined )
       => /\ call.invoked
             => ( call.hasMeta /\ call.verified
                  /\ HoldsRole(call.serviceName, call.wrap.arg) )
          /\ ( /\ call.pc = "done"
               /\ call.verified
               /\ call.serviceName \in ServiceNames
               /\ ~HoldsRole(call.serviceName, call.wrap.arg)
               /\ call.err # StoreError )
             => ( ~call.invoked /\ call.err = InsufficientRoleError )

\* a verified caller that holds service-reader only was refused by a handler
\* requiring service-admin
C29_Witness ==
    /\ call.pc = "done"
    /\ call.wrap = WrapRole("service-admin")
    /\ call.verified
    /\ call.serviceName = "api-rest-service"
    /\ HoldsRole("api-rest-service", "service-reader")
    /\ ~HoldsRole("api-rest-service", "service-admin")
    /\ call.err = InsufficientRoleError
    /\ ~call.invoked

\* C30: under the service-level policy, a configuration with enabled = false
\* registers the handler map unmodified and each of its handlers is called
\* whether or not a token is sent; a configuration with enabled = true puts
\* the check in front of every handler, and a handler is then called exactly
\* when the call carries a valid token whose role is in the allowed-role
\* list whenever that list is given and non-empty.
C30_ServiceLevelPolicy ==
    [][ /\ ( lastOp'.op = "addService" /\ lastOp'.ok )
           => \A n \in GrpcServices, cfg \in ServiceAuthConfigs :
                AddAuthService(n, cfg)
                => LET impl == (CHOOSE h \in Range(server'.handlers) :
                                    h.serviceName = n).impl IN
                   IF cfg.enabled
                   THEN \A m \in DOMAIN OriginalImplementation(n) :
                            /\ m \in DOMAIN impl
                            /\ impl[m] = WrapAuth(cfg.allowedRoles)
                   ELSE impl = OriginalImplementation(n)
        /\ ( call'.pc = "done" /\ call.pc # "done" )
           => IF call'.wrap.kind = "original"
              THEN call'.invoked
              ELSE /\ call'.wrap.kind = "auth"
                   /\ call'.invoked
                      <=> /\ call'.hasMeta
                          /\ call'.token.claims.sig = JWT_SECRET
                          /\ ( /\ call'.wrap.roles.given
                               /\ Len(call'.wrap.roles.list) > 0 )
                             => call'.token.claims.role
                                    \in Range(call'.wrap.roles.list)
                   /\ ~call'.invoked
                      => /\ call'.callbacks = 1
                         /\ call'.err \in { MissingUserTokenError,
                                            InvalidUserTokenError,
                                            InsufficientUserRoleError } ]_vars

\* a call with a valid token of role user was refused by a service whose
\* configuration allows admin only, while the other service, configured with
\* enabled = false, is registered unmodified
C30_Witness ==
    /\ call.pc = "done"
    /\ ~call.invoked
    /\ call.err = InsufficientUserRoleError
    /\ call.token.claims.role = "user"
    /\ call.wrap = WrapAuth(RolesGiven(<< "admin" >>))
    /\ \E h \in Range(server.handlers) :
          /\ h.serviceName # call.target[1]
          /\ h.impl = OriginalImplementation(h.serviceName)

\* C31: a call that ended because a store operation of its check rejected
\* (the key lookup, the lastUsedAt update, the role or permission lookup)
\* ended with the store's error, whose code is neither UNAUTHENTICATED nor
\* PERMISSION_DENIED, delivered once, and the handler was not called.
C31_StoreFailureDistinct ==
    ( call.pc = "done" /\ call.cause = "store" )
    => /\ call.err.code \notin { "UNAUTHENTICATED", "PERMISSION_DENIED", "OK" }
       /\ call.err = StoreError
       /\ call.callbacks = 1
       /\ ~call.invoked
       /\ ~call.responded

\* the permission lookup of a call with a verified key rejected
C31_Witness ==
    /\ call.pc = "done"
    /\ call.cause = "store"
    /\ call.wrap.kind = "permission"
    /\ call.verified
    /\ call.touched
    /\ call.err = StoreError
    /\ ~call.invoked

\* C32: a step of a call writes nothing to the store except the lastUsedAt
\* of the row holding the presented key, and writes that only after the key
\* was verified; so a call rejected during verification (no metadata, an
\* unknown, revoked or expired key, a refused token) leaves the store as it
\* was, and a call rejected for its role or permission has changed at most
\* the lastUsedAt of the presented key.
C32_RejectedCallWrites ==
    [][ ( call' # call /\ call'.pc # "idle" )
        => /\ UNCHANGED << serviceRoles, rolePermissions, serviceEndpoints >>
           /\ ( apiKeys' # apiKeys )
              => /\ call.verified
                 /\ call.keyId \in DOMAIN apiKeys
                 /\ apiKeys[call.keyId].key = call.token.chars
                 /\ apiKeys' = [ apiKeys EXCEPT ![call.keyId].lastUsedAt = call.at ]
           /\ ( call'.pc = "done" /\ ~call'.verified )
              => ( apiKeys' = apiKeys /\ ~call'.touched )
           /\ ( call'.pc = "done" /\ call'.err.code = "PERMISSION_DENIED" )
              => apiKeys' = apiKeys ]_vars

\* a call presenting a stored key was refused for its role after the
\* lastUsedAt of that key was written, the rest of the row being as created
C32_Witness ==
    /\ call.pc = "done"
    /\ call.err = GrpcError("PERMISSION_DENIED", "Insufficient service role")
    /\ call.touched
    /\ call.keyId = 1
    /\ call.at = 1
    /\ Len(apiKeys) = 1
    /\ apiKeys[1].lastUsedAt = 1
    /\ apiKeys[1].createdAt = 0
    /\ ~apiKeys[1].isRevoked

\* C33: a call presenting a stored, never revoked API key whose expiresAt
\* equals the clock at the verification ends with UNAUTHENTICATED 'API key
\* has expired', without the handler (the key counts as not expired only
\* while expiresAt is strictly later than the clock).
C33_ExpiredAtTheInstant ==
    [][ \A i \in 1..Len(apiKeys) :
          ( PresentsKey(i) /\ ~apiKeys[i].isRevoked /\ apiKeys[i].expiresAt = now )
          => ( call'.pc = "done" /\ call'.err = ExpiredError /\ ~call'.invoked ) ]_vars

\* C34: the endpoint policy of a service is the one its rows held when it was
\* registered: at the step that registers a service by name (addService with
\* applyAuth not false and no failure reported, or a composition whose
\* options name the service and give no map) each method is gated by the
\* permission its row holds at that step and left open when it has no row;
\* and no later step, a creation or deletion of rows and a call included,
\* changes the handlers of a registered service.
C34_PolicyFixedAtRegistration ==
    [][ LET last   == server'.handlers[Len(server'.handlers)]
            rows   == GetServiceEndpointPermissions(serviceEndpoints,
                                                    last.serviceName)
            byRows == \A m \in DOMAIN last.impl :
                        last.impl[m] =
                          IF Truthy(GetProperty(rows, m))
                          THEN WrapPermission(rows[m])
                          ELSE OriginalImplementation(last.serviceName)[m]
        IN
        /\ ( /\ server.pending # << >>
             /\ Len(server'.handlers) = Len(server.handlers) + 1
             /\ lastOp'.detail # NoAuthConfigurationWarning )
           => byRows
        /\ \A n \in GrpcServices :
             AddComposedService(n, ObjectOptions("endpoint", Undefined, NoMap, n))
             => ( Len(server'.handlers) = Len(server.handlers) + 1 => byRows )
        /\ \A i \in 1..Len(server.handlers) :
             /\ i <= Len(server'.handlers)
             /\ server'.handlers[i] = server.handlers[i] ]_vars

\* C35: a call that has entered a composed handler goes through the stages of
\* its check in order, none of them twice (the lastUsedAt update, then the
\* permission lookup, then the identity lookup or the role lookup), reaches
\* its end whenever the store operations it awaits settle, and has then
\* exactly one of two outcomes: the business handler was called, or the
\* handler was not called and one error of the check was delivered through
\* the callback.
C35_CheckRunsToCompletion ==
    /\ [][ LET Stage(pc) == CASE pc = "touch"      -> 1
                              [] pc = "permission" -> 2
                              [] pc = "role"       -> 2
                              [] pc = "info"       -> 3
                              [] pc = "done"       -> 4
                              [] OTHER             -> 0
           IN ( call.pc \notin { "idle", "done" } /\ call' # call )
              => /\ Stage(call'.pc) > Stage(call.pc)
                 /\ call'.wrap = call.wrap
                 /\ call'.token = call.token ]_vars
    /\ [] ( ( call.pc = "done" )
            => /\ call.invoked
                  <=> ~( /\ call.err \notin { NoError, HandlerError }
                         /\ call.callbacks = 1 )
               /\ call.invoked => call.err \in { NoError, HandlerError } )
    /\ ( call.pc \notin { "idle", "done" } ) ~> ( call.pc = "done" )

\* a call went through the update, the permission lookup and the identity
\* lookup and ended in the handler
C35_Witness ==
    /\ call.pc = "done"
    /\ call.wrap.kind = "permission"
    /\ call.touched
    /\ call.authorized
    /\ call.invoked
    /\ call.err = NoError

\* C36: in every call through a composed handler the callback of grpc is
\* invoked at most once, whether the handler is registered directly or behind
\* the logging wrapper, and also when the business handler has responded
\* through the callback and then throws.
C36_CallbackAtMostOnce ==
    \A logging \in BOOLEAN : GrpcCallbackCount(call, logging) <= 1

\* C37: whenever the business handler has been called through a handler
\* requiring permission P, the permissions attached to the call contain P,
\* whatever changes to the caller's roles and to the permissions of roles
\* happen between the permission lookup and the identity lookup of the call.
C37_AttachedContainsRequired ==
    ( call.invoked /\ call.wrap.kind = "permission" )
    => call.wrap.arg \in Range(call.attached.permissions)

=============================================================================
